---- MODULE Spec2Model ----
(***************************************************************************)
(* State-machine model of sdrx: the lock-free single producer / single     *)
(* consumer chunked ring buffer (src/crb.hpp) as used by the producer      *)
(* callback and the audio thread, the R820 device manager (its worker, its *)
(* control calls and the assembly of its data events: src/rtl_dev.cpp,     *)
(* src/src/airspy_dev.cpp), and the start-up and shutdown of the program   *)
(* (main, alsa_worker and signal_handler of src/src/sdrx.cpp).             *)
(*                                                                         *)
(* Every access to a variable shared between two threads is a step of its  *)
(* own, so that TLC enumerates every interleaving of the two threads. The  *)
(* release stores and acquire loads of write_ptr_ and read_ptr_ order the  *)
(* chunk and end_ptr_ accesses around them as the interleaving does.       *)
(* run_ and state_ of the device manager are plain members: their reads    *)
(* and writes are single steps, taken in program order.                    *)
(***************************************************************************)
EXTENDS Integers, Sequences, FiniteSets, TLC

\* ------------------------------------------------------------------------
\* Bounds of the model
\* ------------------------------------------------------------------------

\* Largest num_chunks a CRB is constructed with
MaxChunks == 3

\* Number of chunks the writer commits before the model stops writing
MaxWrites == 7

\* Number of times the control thread starts the device manager
MaxStarts == 2

\* Number of vendor transfers delivered to the data callback of the manager
MaxTransfers == 3

\* Number of streaming sessions (opens that start streaming) of the manager
MaxSessions == 2

\* Largest down sampling factor of a stage
MaxM == 3

\* Largest number of stages of an MSD
MaxStages == 2

\* Largest number of coefficient sets of a frequency translating first stage
MaxSets == 2

\* Number of coefficients of a stage on each side of its centre coefficient
MaxHalf == 1

\* Number of samples given to an MSD
MaxIn == 12

\* Largest number of channels of the audio period processor
MaxChannels == 2

\* Number of audio periods
MaxPeriods == 23

\* Number of channel arguments of a command line, taken in any order
MaxArgs == 2

\* Largest number of channels of a command line
MaxList == 6

\* Number of device blocks given to data_cb after the startup
MaxBlocks == 2

\* Number of addJob calls on a DS
MaxJobs == 2

\* Tuner frequency limits and default (Hz)
MIN_FQ == 45000000
MAX_FQ == 1700000000
DEFAULT_FQ == 100000000

\* Composite gain limits and the defaults of the gain (dB, register values)
MIN_GAIN == 0
MAX_GAIN == 50
DEFAULT_GAIN == 30
DEFAULT_LNA_GAIN_IDX == 9
DEFAULT_MIX_GAIN_IDX == 8
DEFAULT_VGA_GAIN_IDX == 12

\* Samples of one channel in a chunk of the ring
CH_IQ_BUF_SIZE == 512

VARIABLES
    \* ---- CRB members (src/crb.hpp:195-213)
    num_chunks,            \* constructor argument
    chunks_,               \* slot -> [buf, m]
    write_ptr_,
    read_ptr_,
    end_ptr_,
    acquired_write_ptr_,
    acquired_write_len_,
    acquired_end_ptr_,
    acquired_read_ptr_,
    acquired_read_len_,
    \* ---- writer thread (data_cb): position and locals
    wpc,
    aw_rd_ptr,             \* local rd_ptr of acquireWrite
    aw_ok,                 \* return value of the last acquireWrite
    \* ---- reader thread (audio period): position and locals
    rpc,
    ar_wr_ptr,             \* local wr_ptr of acquireRead
    ar_ok,                 \* return value of the last acquireRead
    got,                   \* [buf, m] the reader copied out of its chunk
    \* ---- history of the ring (what was committed, what was read)
    committed,             \* Seq of [slot, buf, m], appended by commitWrite
    obtained,              \* Seq of [buf, m], appended by commitRead
    aw_waiting,            \* committed-and-unread chunks when acquireWrite loaded read_ptr_
    aw_reads,              \* commitReads done when acquireWrite loaded read_ptr_
    ar_waiting,            \* committed-and-unread chunks when acquireRead loaded write_ptr_
    \* ---- the ring's streaming flag and the two callback contexts
    streaming_,            \* the atomic bool behind setStreaming / isStreaming
    ctx_stream_state,      \* InputState::stream_state of data_cb
    written_since_idle,    \* a block was committed after the last IDLE notification
    period,                \* what the audio thread did in its current period
    \* ---- the calls of the ring's interface
    w_acq,                 \* an acquireWrite has returned true since the last commitWrite
    cw_ok,                 \* return value of the last commitWrite
    r_acq,                 \* an acquireRead has returned true since the last commitRead
    cr_ok,                 \* return value of the last commitRead
    \* ---- device manager members (src/src/r820_dev.hpp:246-251, src/rtl_dev.hpp:110-112)
    dev_type,              \* "RTL" or "AIRSPY": the class R820Dev::create instantiated
    run_,
    state_,
    dev_,                  \* device handle: "null" or "open"
    stream_state,          \* block_info_.stream_state
    \* ---- worker thread, control thread and the device itself
    kpc,                   \* position of the worker thread ("none": no thread yet)
    cpc,                   \* position of the thread calling start() and stop()
    last_call,             \* the last call of the control thread that returned
    ret,                   \* and its return value
    dev_ok,                \* the device is plugged in and answers
    starts,                \* number of start() calls that returned OK
    retried,               \* the worker has slept a backoff since start()
    evlog,                 \* what the data events emitted so far amount to
    \* ---- tuner settings (src/rtl_dev.hpp:105, src/src/airspy_dev.cpp:106)
    fq_,                   \* the cached centre frequency
    dev_fq,                \* the centre frequency last set in the opened device
    fq_deferred,           \* the last setFq returned OK without calling the device
    \* ---- block assembly of the manager (src/airspy_dev.hpp:116-119)
    fs_,                   \* the sample rate the manager was created with, in S/s
    block_size_,
    part_pos_,
    iq_pos_,
    in_session,            \* the vendor library is streaming to data_cb_
    session,               \* number of streaming sessions begun
    blk_first,             \* session of the oldest sample in the block being filled
    emitted,               \* the data events of the last callback or worker step
    transfers,             \* number of vendor transfers delivered
    iq_buffer_,            \* the double buffer: runs of positions and the samples they hold
    received,              \* samples handed to data_cb_ with run_ true, numbered 1, 2, ...
    nblocks,               \* blocks emitted by data_cb_
    blocks,                \* the blocks the last callback emitted, as read from the buffer
    \* ---- the program: main, the audio thread and the signal handler
    run,                   \* the global run flag (src/src/sdrx.cpp:125)
    mpc,                   \* position of main
    apc,                   \* position of the audio thread ("al_none": no thread yet)
    exit_code,             \* the value main returned
    \* ---- the down samplers under comparison (src/src/msd.hpp:416-420)
    msd_m,                 \* the m of the stages every MSD is constructed with
    msd_k,                 \* translator.size() of the translating MSDs
    msd,                   \* "ft", "tr", "by" -> the members of that MSD
    msd_fed,               \* samples given to decimate before its last call
    msd_in_len,            \* in_len of the last decimate call
    msd_out,               \* "ft", "tr", "by" -> the samples that call wrote to out
    \* ---- the audio period processor (src/src/sdrx.cpp:198-220, 253-271)
    channels,              \* settings.channels: Seq of [sql_state, sql_state_prev]
    sql_wait,              \* OutputState::sql_wait
    aud_env,               \* channel -> envelope its audio was multiplied with in the last period
    aud_mixed,             \* channel -> its audio was added to the output in the last period
    aud_proc,              \* channel -> sql_state it was processed with in its last period
    aud_before,            \* channel -> sql_state it was processed with in the period before
    status_line,           \* the last period with a chunk printed the status line
    since_line,            \* chunks read since the period of the status line before
    lines,                 \* status lines printed
    periods,               \* calls of alsa_write_cb
    \* ---- startup of main (src/src/sdrx.cpp:224-243)
    argv_channels,         \* the channel arguments of the command line
    settings_rate,         \* sample_rate_to_uint(settings.rate)
    settings_channels,     \* the names of settings.channels
    tuner_fq,              \* settings.tuner_fq
    spc,                   \* position of main in its startup
    bw_ok,                 \* what verify_requested_bandwidth returned
    ch_offset,             \* channel -> ch_offset of the channel setup
    ch_pos,                \* channel -> ch.pos
    stages_m,              \* the m of the stages main chose for the rate
    ch_isn,                \* channel -> isn_ of the stages of its MSD
    ch_out_len,            \* channel -> samples its MSD wrote for the last block
    blocks_in,             \* device blocks given to data_cb
    \* ---- the gain of the tuner (src/rtl_dev.hpp:106-109)
    gain_,                 \* in tenths of a dB
    lna_gain_idx_,
    mix_gain_idx_,
    vga_gain_idx_,
    gain_arg,              \* the argument of the last setGain, in tenths of a dB
    gain_ret,              \* and its return value
    \* ---- the down sampler thread (src/src/ds.hpp:54-64)
    ds_run_,               \* run_ of the DS
    in_data_ptr_,          \* the job of in_data_ptr_, in_data_len_, out_ptr_; 0: nullptr
    latch_,                \* the job latch_ points to the latch of; 0: nullptr
    mutex_,                \* the thread that holds mutex_
    dwpc,                  \* position of the thread of worker_
    dopc,                  \* position of the thread that owns the DS
    jobs,                  \* addJob calls made; a job is named by its number
    decimated,             \* job -> calls of msd_.decimate with its data
    counted,               \* job -> calls of count_down on its latch
    dropped                \* jobs that were in in_data_ptr_ when it was overwritten or run_ cleared

crbvars == << num_chunks, chunks_, write_ptr_, read_ptr_, end_ptr_,
              acquired_write_ptr_, acquired_write_len_, acquired_end_ptr_,
              acquired_read_ptr_, acquired_read_len_,
              wpc, aw_rd_ptr, aw_ok, rpc, ar_wr_ptr, ar_ok, got,
              committed, obtained, aw_waiting, aw_reads, ar_waiting >>

devvars == << dev_type, run_, state_, dev_, stream_state, kpc, cpc, last_call, ret,
              dev_ok, starts, retried >>

\* the streaming flag and the producer's context, written by data_cb only
wctx == << streaming_, ctx_stream_state, written_since_idle >>

\* the audio thread's record of its period
rctx == << period >>

\* the record of the calls of acquire and commit
wapi == << w_acq, cw_ok >>
rapi == << r_acq, cr_ok >>

tunevars == << fq_, dev_fq, fq_deferred >>

\* the record of the data events of the manager
evvars == << evlog >>

blkvars == << fs_, block_size_, part_pos_, iq_pos_, in_session, session, blk_first,
              emitted, transfers, iq_buffer_, received, nblocks, blocks >>

mainvars == << run, mpc, apc, exit_code >>

msdvars == << msd_m, msd_k, msd, msd_fed, msd_in_len, msd_out >>

audvars == << channels, sql_wait, aud_env, aud_mixed, aud_proc, aud_before,
              status_line, since_line, lines, periods >>

setvars == << argv_channels, settings_rate, settings_channels, tuner_fq, spc, bw_ok,
              ch_offset, ch_pos, stages_m, ch_isn, ch_out_len, blocks_in >>

gainvars == << gain_, lna_gain_idx_, mix_gain_idx_, vga_gain_idx_, gain_arg, gain_ret >>

\* the signal processing and the settings of the program
dspvars == << msdvars, audvars, setvars, gainvars >>

dsvars == << ds_run_, in_data_ptr_, latch_, mutex_, dwpc, dopc, jobs, decimated,
            counted, dropped >>

vars == << dsvars, crbvars, wctx, rctx, wapi, rapi, devvars, tunevars, evvars, blkvars,
           mainvars, dspvars >>

\* what the ring and its two threads leave alone
notcrb == << dsvars, devvars, tunevars, evvars, blkvars, mainvars, dspvars >>

\* what the device manager and its threads leave alone
notdev == << dsvars, crbvars, wctx, rctx, wapi, rapi, blkvars, mainvars, dspvars >>

\* what the block assembly of the manager leaves alone
notblk == << dsvars, crbvars, wctx, rctx, wapi, rapi, devvars, tunevars, evvars, mainvars,
            dspvars >>

\* what main, the audio thread and the signal handler leave alone
notmain == << dsvars, crbvars, wctx, rctx, wapi, rapi, devvars, tunevars, evvars, blkvars,
             dspvars >>

\* what the down samplers leave alone
notmsd == << dsvars, crbvars, wctx, rctx, wapi, rapi, devvars, tunevars, evvars, blkvars,
             mainvars,
             audvars, setvars, gainvars >>

\* what the audio period processor leaves alone
notaud == << dsvars, crbvars, wctx, rctx, wapi, rapi, devvars, tunevars, evvars, blkvars,
             mainvars,
             msdvars, setvars, gainvars >>

\* what the startup of main leaves alone
notset == << dsvars, crbvars, wctx, rctx, wapi, rapi, devvars, tunevars, evvars, blkvars,
             mainvars,
             msdvars, audvars, gainvars >>

\* what setGain leaves alone
notds == << crbvars, wctx, rctx, wapi, rapi, devvars, tunevars, evvars, blkvars,
            mainvars, dspvars >>

notgain == << dsvars, crbvars, wctx, rctx, wapi, rapi, devvars, tunevars, evvars, blkvars,
              mainvars,
              msdvars, audvars, setvars >>

\* ------------------------------------------------------------------------
\* CRB
\* ------------------------------------------------------------------------

\* capacity_(num_chunks+1)
capacity_ == num_chunks + 1

\* A chunk as constructed: value-initialised payload and metadata
EmptyChunk == [buf |-> 0, m |-> 0]

\* Number of chunks committed by the writer and not yet released by the reader
Waiting == Len(committed) - Len(obtained)

\* acquireWrite with the wrap test off by one (0 < rd_ptr): the writer wraps
\* onto the reader's position
AcquireWriteCalc_WrapEarly(wr_ptr, rd_ptr, cap, cur) ==
    IF wr_ptr >= rd_ptr
    THEN IF wr_ptr + 1 < cap
         THEN [ptr |-> wr_ptr, len |-> 1, endp |-> cap - 1]
         ELSE IF 0 < rd_ptr
              THEN [ptr |-> 0, len |-> 1, endp |-> wr_ptr]
              ELSE [ptr |-> cur.ptr, len |-> 0, endp |-> cur.endp]
    ELSE IF wr_ptr + 1 < rd_ptr
         THEN [ptr |-> wr_ptr, len |-> 1, endp |-> cur.endp]
         ELSE [ptr |-> cur.ptr, len |-> 0, endp |-> cur.endp]

\* acquireWrite that, in state 2, writes up to and including read_ptr_ - 1
AcquireWriteCalc_NoGap(wr_ptr, rd_ptr, cap, cur) ==
    IF wr_ptr >= rd_ptr
    THEN IF wr_ptr + 1 < cap
         THEN [ptr |-> wr_ptr, len |-> 1, endp |-> cap - 1]
         ELSE IF 1 < rd_ptr
              THEN [ptr |-> 0, len |-> 1, endp |-> wr_ptr]
              ELSE [ptr |-> cur.ptr, len |-> 0, endp |-> cur.endp]
    ELSE IF wr_ptr + 1 <= rd_ptr
         THEN [ptr |-> wr_ptr, len |-> 1, endp |-> cur.endp]
         ELSE [ptr |-> cur.ptr, len |-> 0, endp |-> cur.endp]

\* acquireWrite that also hands out the sentinel slot (wr_ptr + 1 <= capacity_)
AcquireWriteCalc_NoSentinel(wr_ptr, rd_ptr, cap, cur) ==
    IF wr_ptr >= rd_ptr
    THEN IF wr_ptr + 1 <= cap
         THEN [ptr |-> wr_ptr, len |-> 1, endp |-> cap - 1]
         ELSE IF 1 < rd_ptr
              THEN [ptr |-> 0, len |-> 1, endp |-> wr_ptr]
              ELSE [ptr |-> cur.ptr, len |-> 0, endp |-> cur.endp]
    ELSE IF wr_ptr + 1 < rd_ptr
         THEN [ptr |-> wr_ptr, len |-> 1, endp |-> cur.endp]
         ELSE [ptr |-> cur.ptr, len |-> 0, endp |-> cur.endp]

\* acquireWrite that latches the end pointer in state 2 as well
AcquireWriteCalc_EndInState2(wr_ptr, rd_ptr, cap, cur) ==
    IF wr_ptr >= rd_ptr
    THEN IF wr_ptr + 1 < cap
         THEN [ptr |-> wr_ptr, len |-> 1, endp |-> cap - 1]
         ELSE IF 1 < rd_ptr
              THEN [ptr |-> 0, len |-> 1, endp |-> wr_ptr]
              ELSE [ptr |-> cur.ptr, len |-> 0, endp |-> cur.endp]
    ELSE IF wr_ptr + 1 < rd_ptr
         THEN [ptr |-> wr_ptr, len |-> 1, endp |-> wr_ptr]
         ELSE [ptr |-> cur.ptr, len |-> 0, endp |-> cur.endp]

\* The slot decision of acquireWrite. cur holds the members as they are
\* before the call: [ptr |-> acquired_write_ptr_, endp |-> acquired_end_ptr_].
AcquireWriteCalc(wr_ptr, rd_ptr, cap, cur) ==
    IF wr_ptr >= rd_ptr
    THEN IF wr_ptr + 1 < cap
         THEN [ptr |-> wr_ptr, len |-> 1, endp |-> cap - 1]
         ELSE IF 1 < rd_ptr
              THEN [ptr |-> 0, len |-> 1, endp |-> wr_ptr]
              ELSE [ptr |-> cur.ptr, len |-> 0, endp |-> cur.endp]
    ELSE IF wr_ptr + 1 < rd_ptr
         THEN [ptr |-> wr_ptr, len |-> 1, endp |-> cur.endp]
         ELSE [ptr |-> cur.ptr, len |-> 0, endp |-> cur.endp]

\* acquireRead that, in state 1, reads up to and including write_ptr_
AcquireReadState1_Inclusive(wr_ptr, rd_ptr) ==
    [ptr |-> rd_ptr, len |-> wr_ptr - rd_ptr + 1]

\* The slot decision of acquireRead in state 1 (write leads read)
AcquireReadState1(wr_ptr, rd_ptr) ==
    [ptr |-> rd_ptr, len |-> wr_ptr - rd_ptr]

\* acquireRead whose wrap-around leaves the last chunk before write_ptr_ unread
AcquireReadState2_Short(wr_ptr, rd_ptr, endp) ==
    IF rd_ptr < endp
    THEN [ptr |-> rd_ptr, len |-> endp - rd_ptr]
    ELSE [ptr |-> 0, len |-> wr_ptr - 1]

\* The slot decision of acquireRead in state 2 (read leads write)
AcquireReadState2(wr_ptr, rd_ptr, endp) ==
    IF rd_ptr < endp
    THEN [ptr |-> rd_ptr, len |-> endp - rd_ptr]
    ELSE [ptr |-> 0, len |-> wr_ptr]

\* ------------------------------------------------------------------------
\* Device manager
\* ------------------------------------------------------------------------

\* The data events emitted so far, as far as their order goes: a session is
\* open from the start of streaming to its zero-length IDLE event
NoEvents ==
    [open |-> FALSE, sessions |-> 0, blocks |-> 0,
     stray |-> FALSE, extra |-> FALSE, unended |-> FALSE]

\* Streaming starts (rtlsdr_read_async entered, airspy_start_rx succeeded)
EvBegin(e) ==
    [e EXCEPT !.open = TRUE,
              !.sessions = IF e.sessions < 2 THEN e.sessions + 1 ELSE 2,
              !.blocks = 0,
              !.unended = e.unended \/ e.open]

\* self.data(...) with a block of samples and block_info_ as it is
EvBlock(e, st) ==
    [e EXCEPT !.blocks = 1,
              !.stray = e.stray \/ ~e.open \/ st # "STREAMING"]

\* self.data(self.iq_buffer_, 0, ...) with stream_state IDLE
EvIdle(e) ==
    [e EXCEPT !.open = FALSE,
              !.extra = e.extra \/ ~e.open]

\* R820Dev::R820Dev and the RtlDev / AirspyDev constructors
DevConstructed ==
    /\ dev_type = "RTL"
    /\ run_ = FALSE
    /\ state_ = "IDLE"
    /\ dev_ = "null"
    /\ stream_state = "IDLE"
    /\ kpc = "none"
    /\ cpc = "c_idle"
    /\ last_call = "none"
    /\ ret = "none"
    /\ dev_ok = FALSE
    /\ starts = 0
    /\ retried = FALSE
    /\ evlog = NoEvents
    /\ fq_ = DEFAULT_FQ
    /\ dev_fq = DEFAULT_FQ
    /\ fq_deferred = FALSE

\* The manager as constructed for the default RTL rate, not streaming
BlkConstructed ==
    /\ fs_ = 1440000
    /\ block_size_ = 0
    /\ part_pos_ = 0
    /\ iq_pos_ = 0
    /\ in_session = FALSE
    /\ session = 0
    /\ blk_first = 0
    /\ emitted = << >>
    /\ transfers = 0
    /\ iq_buffer_ = {}
    /\ received = 0
    /\ nblocks = 0
    /\ blocks = << >>

\* The program before main creates its threads: run is true
MainConstructed ==
    /\ run = TRUE
    /\ mpc = "m_spawn"
    /\ apc = "al_none"
    /\ exit_code = "none"

\* ------------------------------------------------------------------------
\* MSD: the multi-stage translating down sampler (src/src/msd.hpp)
\* ------------------------------------------------------------------------

\* h.size() of every stage: odd, as the constructor of a stage asserts
HSize == 2 * MaxHalf + 1

\* A sample is the set of its terms. A term is one input sample in[i],
\* multiplied by translator[t] (t = -1: by no translator), by the scale g and
\* by one filter coefficient for every stage it passed: h is the sequence of
\* << position in the delay line, index of the coefficient >> of the stages.

\* iqsample_t(0.0f, 0.0f)
Zero == {}

\* in[i]
In(i) == {[i |-> i, t |-> -1, g |-> 1, h |-> << >>]}

\* sample * translator_[k]
Mix(sample, k) == {[x EXCEPT !.t = k] : x \in sample}

\* sample * h_[c], for the sample at d_ptr[n]
Tap(sample, n, c) == {[x EXCEPT !.h = Append(@, << n, c >>)] : x \in sample}

\* The coefficient a stage multiplies d_ptr[n] with. The folded FIR reads
\* h_ptr[i] for d_ptr[i] and for d_ptr[h_.size() - 1 - i]: h is symmetric,
\* and h[n] is named by the smaller of n and h_.size() - 1 - n
H(n) == IF n <= (HSize - 1) \div 2 THEN n ELSE HSize - 1 - n

\* hk_[set][n] of a first stage: h[n] * translator[k] * 2.0f, where k starts at
\* set * m_ and is advanced with wrap around for every coefficient
Hk(m, K, set, n) == [c |-> H(n), t |-> (set * m + n) % K, g |-> 2]

\* MSD::S::S: the members of a stage with factor m, built with a translator
\* of K samples (K = 0: without). hk_ is kept by the number of its sets
S(m, K) ==
    [m_ |-> m,
     d_ |-> [n \in 1..(2 * HSize) |-> Zero],
     pos_ |-> 0,
     isn_ |-> m,
     hk_ |-> (IF K > 0 THEN K \div m ELSE 0),
     k_ |-> 0]

\* a stage that writes the sample to the first copy of the delay line only
AddSample_SingleCopy(s, sample) ==
    LET d == [s.d_ EXCEPT ![s.pos_ + 1] = sample]
        pos == IF s.pos_ + 1 = HSize THEN 0 ELSE s.pos_ + 1
    IN  IF s.isn_ - 1 = 0
        THEN [s |-> [s EXCEPT !.d_ = d, !.pos_ = pos, !.isn_ = s.m_], ret |-> TRUE]
        ELSE [s |-> [s EXCEPT !.d_ = d, !.pos_ = pos, !.isn_ = s.isn_ - 1], ret |-> FALSE]

\* a stage that asks for one more sample than m_ after every output
AddSample_OneMore(s, sample) ==
    LET d == [s.d_ EXCEPT ![s.pos_ + 1] = sample, ![s.pos_ + HSize + 1] = sample]
        pos == IF s.pos_ + 1 = HSize THEN 0 ELSE s.pos_ + 1
    IN  IF s.isn_ - 1 = 0
        THEN [s |-> [s EXCEPT !.d_ = d, !.pos_ = pos, !.isn_ = s.m_ + 1], ret |-> TRUE]
        ELSE [s |-> [s EXCEPT !.d_ = d, !.pos_ = pos, !.isn_ = s.isn_ - 1], ret |-> FALSE]

\* MSD::S::addSample: the stage after the call, and the value returned
AddSample(s, sample) ==
    LET d == [s.d_ EXCEPT ![s.pos_ + 1] = sample, ![s.pos_ + HSize + 1] = sample]
        pos == IF s.pos_ + 1 = HSize THEN 0 ELSE s.pos_ + 1
    IN  IF s.isn_ - 1 = 0
        THEN [s |-> [s EXCEPT !.d_ = d, !.pos_ = pos, !.isn_ = s.m_], ret |-> TRUE]
        ELSE [s |-> [s EXCEPT !.d_ = d, !.pos_ = pos, !.isn_ = s.isn_ - 1], ret |-> FALSE]

\* d_ptr[n] with d_ptr = &d_[pos_]
DPtr(s, n) == s.d_[s.pos_ + n + 1]

\* MSD::S::calculateOutput: the folded FIR over the delay line
CalculateOutput(s) == UNION {Tap(DPtr(s, n), n, H(n)) : n \in 0..(HSize - 1)}

\* MSD::S::calculateOutputTranslated: the sum of d_ptr[n] * hk_[k_][n], and
\* the stage with k_ advanced to the next coefficient set
CalculateOutputTranslated(s) ==
    [sample |-> UNION {
         {[x EXCEPT !.t = Hk(s.m_, s.m_ * s.hk_, s.k_, n).t,
                    !.g = x.g * Hk(s.m_, s.m_ * s.hk_, s.k_, n).g]
            : x \in Tap(DPtr(s, n), n, Hk(s.m_, s.m_ * s.hk_, s.k_, n).c)}
         : n \in 0..(HSize - 1)},
     s |-> [s EXCEPT !.k_ = IF s.k_ + 1 = s.hk_ THEN 0 ELSE s.k_ + 1]]

\* MSD::MSD: the first stage gets the translator if there is one
Msd(K, ms, use_ftfir) ==
    [stages_ |-> [n \in 1..Len(ms) |-> S(ms[n], IF n = 1 THEN K ELSE 0)],
     translator_ |-> K,
     trans_pos_ |-> 0,
     use_ftfir_ |-> use_ftfir]

\* m_ of an MSD: the product of the m of its stages
RECURSIVE M(_)
M(ms) == IF ms = << >> THEN 1 ELSE Head(ms) * M(Tail(ms))

\* The while loop of decimate over the stages from stage n on: the stages
\* after the sample, and the sample written to out if the last stage
\* produced one
RECURSIVE Cascade(_, _, _)
Cascade(stages, n, sample) ==
    IF n > Len(stages)
    THEN [stages |-> stages, out |-> << sample >>]
    ELSE LET a == AddSample(stages[n], sample)
         IN  IF a.ret
             THEN Cascade([stages EXCEPT ![n] = a.s], n + 1, CalculateOutput(a.s))
             ELSE [stages |-> [stages EXCEPT ![n] = a.s], out |-> << >>]

\* One iteration of the for loop of decimate, in the branch the MSD takes:
\* no translator, frequency translating first stage, or translator
DecimateSample(o, sample) ==
    IF o.translator_ = 0
    THEN LET c == Cascade(o.stages_, 1, sample)
         IN  [msd |-> [o EXCEPT !.stages_ = c.stages], out |-> c.out]
    ELSE IF o.use_ftfir_
    THEN LET a == AddSample(o.stages_[1], sample)
         IN  IF a.ret
             THEN LET t == CalculateOutputTranslated(a.s)
                      c == Cascade([o.stages_ EXCEPT ![1] = t.s], 2, t.sample)
                  IN  [msd |-> [o EXCEPT !.stages_ = c.stages], out |-> c.out]
             ELSE [msd |-> [o EXCEPT !.stages_[1] = a.s], out |-> << >>]
    ELSE LET c == Cascade(o.stages_, 1, Mix(sample, o.trans_pos_))
         IN  [msd |-> [o EXCEPT !.stages_ = c.stages,
                                !.trans_pos_ = IF o.trans_pos_ + 1 = o.translator_
                                               THEN 0 ELSE o.trans_pos_ + 1],
              out |-> c.out]

\* MSD::decimate(in, in_len, out): the MSD after the call and the samples
\* written to out
RECURSIVE Decimate(_, _, _)
Decimate(o, in, out) ==
    IF in = << >>
    THEN [msd |-> o, out |-> out]
    ELSE LET r == DecimateSample(o, Head(in))
         IN  Decimate(r.msd, Tail(in), out \o r.out)

\* The three MSDs built from one list of stages: with a translator and
\* use_ftfir ("ft"), with a translator only ("tr"), without translator ("by")
Msds(K, ms) ==
    [ft |-> Msd(K, ms, TRUE), tr |-> Msd(K, ms, FALSE), by |-> Msd(0, ms, FALSE)]

\* MSDs of one stage, nothing decimated yet
MsdConstructed ==
    /\ msd_m = << 2 >>
    /\ msd_k = 2
    /\ msd = Msds(2, << 2 >>)
    /\ msd_fed = 0
    /\ msd_in_len = 0
    /\ msd_out = [ft |-> << >>, tr |-> << >>, by |-> << >>]

\* ------------------------------------------------------------------------
\* The audio period processor (alsa_write_cb of src/src/sdrx.cpp)
\* ------------------------------------------------------------------------

\* Channel::Channel: the squelch is closed and was closed
Channel == [sql_state |-> "SQL_CLOSED", sql_state_prev |-> "SQL_CLOSED"]

\* One channel and no period yet; alsa_worker has set sql_wait to 0
AudConstructed ==
    /\ channels = << Channel >>
    /\ sql_wait = 0
    /\ aud_env = << "none" >>
    /\ aud_mixed = << FALSE >>
    /\ aud_proc = << "SQL_CLOSED" >>
    /\ aud_before = << "SQL_CLOSED" >>
    /\ status_line = FALSE
    /\ since_line = 0
    /\ lines = 0
    /\ periods = 0

\* ------------------------------------------------------------------------
\* Startup of the program: channels, tuner frequency, bandwidth, positions
\* ------------------------------------------------------------------------

\* A channel name "MMM.fff" as given on the command line: mhz is the number
\* before the dot, fff the number made of the three digits after it
Name(mhz, fff) == [mhz |-> mhz, fff |-> fff]

\* sub_ch_map of parse_fq: the last two digits of a channel -> Hz inside the
\* 100 kHz band
SubChHz ==
    [d \in {0, 5, 10, 15, 25, 30, 35, 40, 50, 55, 60, 65, 75, 80, 85, 90} |->
       CASE d \in {0, 5} -> 0          [] d = 10 -> 8333       [] d = 15 -> 16667
         [] d \in {25, 30} -> 25000    [] d = 35 -> 33333      [] d = 40 -> 41667
         [] d \in {50, 55} -> 50000    [] d = 60 -> 58333      [] d = 65 -> 66667
         [] d \in {75, 80} -> 75000    [] d = 85 -> 83333      [] d = 90 -> 91667]

\* sub_ch_map of channel_to_offset: the last two digits -> 8.33 kHz steps
SubChSteps ==
    [d \in {0, 5, 10, 15, 25, 30, 35, 40, 50, 55, 60, 65, 75, 80, 85, 90} |->
       CASE d \in {0, 5} -> 0     [] d = 10 -> 1    [] d = 15 -> 2
         [] d \in {25, 30} -> 3   [] d = 35 -> 4    [] d = 40 -> 5
         [] d \in {50, 55} -> 6   [] d = 60 -> 7    [] d = 65 -> 8
         [] d \in {75, 80} -> 9   [] d = 85 -> 10   [] d = 90 -> 11]

\* parse_fq(str, AERONAUTICAL_CHANNEL) for a name of the form MMM.fff: 0 if
\* the last two digits are no channel, else the frequency in Hz
ParseFq(name) ==
    IF name.fff % 100 \in DOMAIN SubChHz /\ name.mhz < 4000
    THEN name.mhz * 1000000 + (name.fff \div 100) * 100000 + SubChHz[name.fff % 100]
    ELSE 0

\* Channel::operator<, the order of std::sort: the order of the name strings,
\* which for names with equally many digits before the dot is the order of
\* the numbers
NameLess(a, b) == a.mhz < b.mhz \/ (a.mhz = b.mhz /\ a.fff < b.fff)

\* (tmp_channels.begin())->name and (--tmp_channels.end())->name after
\* std::sort
LoCh(chs) == CHOOSE a \in {chs[i] : i \in DOMAIN chs} :
                 \A b \in {chs[i] : i \in DOMAIN chs} : ~NameLess(b, a)
HiCh(chs) == CHOOSE a \in {chs[i] : i \in DOMAIN chs} :
                 \A b \in {chs[i] : i \in DOMAIN chs} : ~NameLess(a, b)

\* mid_fq_rounded of parse_cmd_line and of verify_requested_bandwidth: the
\* midpoint of the lowest and the highest channel, truncated to 100 kHz. No
\* value reaches 2^31, the uint32_t arithmetic does not wrap
MidFqRounded(chs) ==
    LET lo_fq == ParseFq(LoCh(chs))
        hi_fq == ParseFq(HiCh(chs))
        mid_fq == lo_fq + (hi_fq - lo_fq) \div 2
    IN  (mid_fq \div 100000) * 100000

\* The while loop of parse_cmd_line over the channel arguments: the channels
\* pushed to settings.channels and whether an argument was rejected
RECURSIVE ParseArgs(_, _, _)
ParseArgs(args, chs, bad) ==
    IF args = << >> THEN [channels |-> chs, bad |-> bad]
    ELSE LET arg == Head(args)
             fq_ret == ParseFq(arg)
         IN  IF fq_ret = 0 \/ fq_ret < 45000000 \/ fq_ret > 1800000000
             THEN ParseArgs(Tail(args), chs, TRUE)
             ELSE IF \E i \in DOMAIN chs : chs[i] = arg
             THEN ParseArgs(Tail(args), chs, bad)
             ELSE ParseArgs(Tail(args), Append(chs, arg), bad)

\* a check that allows 40 % of the rate between the outermost channels
VerifyRequestedBandwidth_Half(chs, rate) ==
    LET lo_fq == ParseFq(LoCh(chs))
        hi_fq == ParseFq(HiCh(chs))
        max_ch_offset == (rate * 4) \div 20
    IN  ~(lo_fq < MidFqRounded(chs) - max_ch_offset
          \/ hi_fq > MidFqRounded(chs) + max_ch_offset)

\* verify_requested_bandwidth
VerifyRequestedBandwidth(chs, rate) ==
    LET lo_fq == ParseFq(LoCh(chs))
        hi_fq == ParseFq(HiCh(chs))
        max_ch_offset == (rate * 8) \div 20
    IN  ~(lo_fq < MidFqRounded(chs) - max_ch_offset
          \/ hi_fq > MidFqRounded(chs) + max_ch_offset)

\* a / b of two int32_t: the quotient truncated towards zero
IntDiv(a, b) == IF a >= 0 THEN a \div b ELSE -((-a) \div b)

\* an offset that counts one more step
ChannelToOffset_OneMore(channel, tuner) ==
    LET fq_base == channel.mhz * 1000000 + (channel.fff \div 100) * 100000
        fq_diff == fq_base - tuner
    IN  IntDiv(fq_diff, 100000) * 12 + SubChSteps[channel.fff % 100] + 1

\* channel_to_offset
ChannelToOffset(channel, tuner) ==
    LET fq_base == channel.mhz * 1000000 + (channel.fff \div 100) * 100000
        fq_diff == fq_base - tuner
    IN  IntDiv(fq_diff, 100000) * 12 + SubChSteps[channel.fff % 100]

\* positions that are not mirrored in the upper half of the channels
GetAudioPos_NoMirror(channel_no, num_channels) ==
    LET num_positions == 5
        half == num_channels \div 2
        odd == num_channels % 2
    IN  IF channel_no >= num_channels THEN 0
        ELSE IF channel_no < half
        THEN (channel_no * num_positions) \div num_channels - num_positions \div 2
        ELSE IF channel_no = half /\ odd = 1 THEN 0
        ELSE num_positions \div 2 - (channel_no * num_positions) \div num_channels

\* get_audio_pos. floorf of the quotient of the two floats is the integer
\* quotient: the operands are small integers
GetAudioPos(channel_no, num_channels) ==
    LET num_positions == 5
        half == num_channels \div 2
        odd == num_channels % 2
    IN  IF channel_no >= num_channels THEN 0
        ELSE IF channel_no < half
        THEN (channel_no * num_positions) \div num_channels - num_positions \div 2
        ELSE IF channel_no = half /\ odd = 1 THEN 0
        ELSE num_positions \div 2
             - ((num_channels - 1 - channel_no) * num_positions) \div num_channels

\* The program before parse_cmd_line, started with one channel at 1.44 MS/s
SetConstructed ==
    /\ argv_channels = << Name(118, 105) >>
    /\ settings_rate = 1440000
    /\ settings_channels = << >>
    /\ tuner_fq = 0
    /\ spc = "s_parse"
    /\ bw_ok = FALSE
    /\ ch_offset = << >>
    /\ ch_pos = << >>
    /\ stages_m = << >>
    /\ ch_isn = << >>
    /\ ch_out_len = << >>
    /\ blocks_in = 0

\* ------------------------------------------------------------------------
\* Device manager: the composite gain (setGain of RtlDev and AirspyDev)
\* ------------------------------------------------------------------------

\* A gain in dB as a number of tenths of a dB: every entry of the tables and
\* every gain of the model is a multiple of 0.1 dB
Tenths(db) == db * 10

\* lna_gain_steps and mix_gain_steps in tenths of a dB; the entry of register
\* value idx is at idx + 1
lna_gain_steps == << 0, 9, 13, 40, 38, 13, 31, 22, 26, 31, 26, 14, 19, 5, 35, 13 >>
mix_gain_steps == << 0, 5, 10, 10, 19, 9, 10, 25, 17, 10, 8, 16, 13, 6, 3, -8 >>

\* The for loop of setGain from iteration i on: the indices and tmp_gain it
\* ends with
RECURSIVE GainLoop(_, _, _, _, _)
GainLoop(i, lna_gain_idx, mix_gain_idx, tmp_gain, gain) ==
    IF i >= 15 \/ tmp_gain >= gain
    THEN [lna |-> lna_gain_idx, mix |-> mix_gain_idx, tmp |-> tmp_gain]
    ELSE LET lna == lna_gain_idx + 1
             tmp == tmp_gain + lna_gain_steps[lna + 1]
         IN  IF tmp >= gain
             THEN [lna |-> lna, mix |-> mix_gain_idx, tmp |-> tmp]
             ELSE GainLoop(i + 1, lna, mix_gain_idx + 1,
                           tmp + mix_gain_steps[mix_gain_idx + 2], gain)

\* The sum of the first idx steps of a table
RECURSIVE StepSum(_, _)
StepSum(steps, idx) == IF idx = 0 THEN 0 ELSE steps[idx + 1] + StepSum(steps, idx - 1)

\* RtlDev::RtlDev and AirspyDev::AirspyDev: the default gain and indices
GainConstructed ==
    /\ gain_ = Tenths(DEFAULT_GAIN)
    /\ lna_gain_idx_ = DEFAULT_LNA_GAIN_IDX
    /\ mix_gain_idx_ = DEFAULT_MIX_GAIN_IDX
    /\ vga_gain_idx_ = DEFAULT_VGA_GAIN_IDX
    /\ gain_arg = -1
    /\ gain_ret = "none"

\* DS::DS: run_ is true, there is no job, the thread of worker_ is created
\* and has not run yet. latch_ is not initialised; it is read only after
\* addJob has assigned it
DsConstructed ==
    /\ ds_run_ = TRUE
    /\ in_data_ptr_ = 0
    /\ latch_ = 0
    /\ mutex_ = "free"
    /\ dwpc = "w_new"
    /\ dopc = "o_idle"
    /\ jobs = 0
    /\ decimated = [j \in 1..MaxJobs |-> 0]
    /\ counted = [j \in 1..MaxJobs |-> 0]
    /\ dropped = {}

\* The signal processing objects and the settings as constructed
DspConstructed == MsdConstructed /\ AudConstructed /\ SetConstructed /\ GainConstructed

\* CRB::setStreaming(v): the value stored in the atomic flag
SetStreaming(v) == v

\* CRB::isStreaming(): the value loaded from the atomic flag
IsStreaming == streaming_

\* An audio period in which nothing has been done yet
NewPeriod == [failed |-> FALSE, warned |-> FALSE, silence |-> 0, audio |-> 0]

\* CRB::CRB. acquired_write_ptr_, acquired_end_ptr_ and acquired_read_ptr_
\* are not initialised by the constructor: any value.
CrbInit ==
    /\ num_chunks \in 1..MaxChunks
    /\ chunks_ = [s \in 0..num_chunks |-> EmptyChunk]
    /\ write_ptr_ = 0
    /\ read_ptr_ = 0
    /\ end_ptr_ = num_chunks
    /\ acquired_write_len_ = 0
    /\ acquired_read_len_ = 0
    /\ acquired_write_ptr_ \in 0..num_chunks
    /\ acquired_end_ptr_ \in 0..num_chunks
    /\ acquired_read_ptr_ \in 0..num_chunks
    /\ wpc = "w_idle"
    /\ aw_rd_ptr = 0
    /\ aw_ok = FALSE
    /\ rpc = "r_idle"
    /\ ar_wr_ptr = 0
    /\ ar_ok = FALSE
    /\ got = EmptyChunk
    /\ committed = << >>
    /\ obtained = << >>
    /\ aw_waiting = 0
    /\ aw_reads = 0
    /\ ar_waiting = 0
    /\ streaming_ = FALSE
    /\ ctx_stream_state = "IDLE"
    /\ written_since_idle = FALSE
    /\ period = NewPeriod
    /\ w_acq = FALSE
    /\ cw_ok = FALSE
    /\ r_acq = FALSE
    /\ cr_ok = FALSE

writer_vars == << write_ptr_, end_ptr_, acquired_write_ptr_, acquired_write_len_,
                  acquired_end_ptr_, wpc, aw_rd_ptr, aw_ok, committed,
                  aw_waiting, aw_reads >>

reader_vars == << read_ptr_, acquired_read_ptr_, acquired_read_len_,
                  rpc, ar_wr_ptr, ar_ok, got, obtained, ar_waiting >>

\* acquireWrite, first step: rd_ptr = read_ptr_.load(acquire)
AcquireWrite_LoadRd ==
    /\ wpc = "w_idle"
    /\ Len(committed) < MaxWrites
    /\ aw_rd_ptr' = read_ptr_
    /\ aw_waiting' = Waiting
    /\ aw_reads' = Len(obtained)
    /\ wpc' = "aw_calc"
    /\ UNCHANGED << num_chunks, chunks_, write_ptr_, end_ptr_, acquired_write_ptr_,
                    acquired_write_len_, acquired_end_ptr_, aw_ok, committed >>
    /\ UNCHANGED << reader_vars, wctx, rctx, wapi, rapi, notcrb >>

\* acquireWrite, the rest: wr_ptr = write_ptr_.load(relaxed), the state check,
\* the acquired_* members and the return value
AcquireWrite_Calc ==
    /\ wpc = "aw_calc"
    /\ LET r == AcquireWriteCalc(write_ptr_, aw_rd_ptr, capacity_,
                                 [ptr |-> acquired_write_ptr_, endp |-> acquired_end_ptr_])
       IN  /\ acquired_write_ptr_' = r.ptr
           /\ acquired_write_len_' = r.len
           /\ acquired_end_ptr_' = r.endp
           /\ aw_ok' = (r.len # 0)
           /\ w_acq' = (w_acq \/ r.len # 0)
    /\ wpc' = "aw_ret"
    /\ UNCHANGED cw_ok
    /\ UNCHANGED << num_chunks, chunks_, write_ptr_, end_ptr_, aw_rd_ptr, committed,
                    aw_waiting, aw_reads >>
    /\ UNCHANGED << reader_vars, wctx, rctx, rapi, notcrb >>

\* data_cb: acquireWrite returned true, the channels are decimated into the chunk
DataCb_Decimate ==
    /\ wpc = "aw_ret"
    /\ aw_ok
    /\ chunks_' = [chunks_ EXCEPT ![acquired_write_ptr_].buf = Len(committed) + 1]
    /\ wpc' = "w_meta"
    /\ UNCHANGED << num_chunks, write_ptr_, end_ptr_, acquired_write_ptr_,
                    acquired_write_len_, acquired_end_ptr_, aw_rd_ptr, aw_ok, committed,
                    aw_waiting, aw_reads >>
    /\ UNCHANGED << reader_vars, wctx, rctx, wapi, rapi, notcrb >>

\* data_cb: *metadata_ptr = meta
DataCb_StoreMeta ==
    /\ wpc = "w_meta"
    /\ chunks_' = [chunks_ EXCEPT ![acquired_write_ptr_].m = Len(committed) + 1]
    /\ wpc' = "cw_end"
    /\ UNCHANGED << num_chunks, write_ptr_, end_ptr_, acquired_write_ptr_,
                    acquired_write_len_, acquired_end_ptr_, aw_rd_ptr, aw_ok, committed,
                    aw_waiting, aw_reads >>
    /\ UNCHANGED << reader_vars, wctx, rctx, wapi, rapi, notcrb >>

\* a data_cb that ignores the return value of acquireWrite and decimates
\* into the chunk last acquired
DataCb_Overrun_WriteAnyway ==
    /\ wpc = "aw_ret"
    /\ ~aw_ok
    /\ chunks_' = [chunks_ EXCEPT ![acquired_write_ptr_].buf = Len(committed) + 1]
    /\ wpc' = "w_idle"
    /\ UNCHANGED << num_chunks, write_ptr_, end_ptr_, acquired_write_ptr_,
                    acquired_write_len_, acquired_end_ptr_, aw_rd_ptr, aw_ok, committed,
                    aw_waiting, aw_reads >>
    /\ UNCHANGED << reader_vars, wctx, rctx, wapi, rapi, notcrb >>

\* data_cb: acquireWrite returned false, the block is dropped
DataCb_Overrun ==
    /\ wpc = "aw_ret"
    /\ ~aw_ok
    /\ wpc' = "w_idle"
    /\ UNCHANGED << num_chunks, chunks_, write_ptr_, end_ptr_, acquired_write_ptr_,
                    acquired_write_len_, acquired_end_ptr_, aw_rd_ptr, aw_ok, committed,
                    aw_waiting, aw_reads >>
    /\ UNCHANGED << reader_vars, wctx, rctx, wapi, rapi, notcrb >>

\* commitWrite, first step: false if acquired_write_len_ == 0 (data_cb logs
\* and goes on), else end_ptr_ = acquired_end_ptr_; acquired_write_len_ = 0
CommitWrite_End ==
    /\ wpc \in {"cw_end", "cw_again"}
    /\ IF acquired_write_len_ = 0
       THEN /\ wpc' = (IF wpc = "cw_end" THEN "w_mark" ELSE "w_idle")
            /\ cw_ok' = FALSE
            /\ w_acq' = FALSE
            /\ UNCHANGED << end_ptr_, acquired_write_len_ >>
       ELSE /\ end_ptr_' = acquired_end_ptr_
            /\ acquired_write_len_' = 0
            /\ wpc' = "cw_store"
            /\ UNCHANGED << cw_ok, w_acq >>
    /\ UNCHANGED << num_chunks, chunks_, write_ptr_, acquired_write_ptr_,
                    acquired_end_ptr_, aw_rd_ptr, aw_ok, committed,
                    aw_waiting, aw_reads >>
    /\ UNCHANGED << reader_vars, wctx, rctx, rapi, notcrb >>

\* commitWrite, second step: write_ptr_.store(acquired_write_ptr_ + 1, release)
CommitWrite_Store ==
    /\ wpc = "cw_store"
    /\ write_ptr_' = acquired_write_ptr_ + 1
    /\ committed' = Append(committed, [slot |-> acquired_write_ptr_,
                                       buf |-> chunks_[acquired_write_ptr_].buf,
                                       m |-> chunks_[acquired_write_ptr_].m])
    /\ written_since_idle' = TRUE
    /\ cw_ok' = TRUE
    /\ w_acq' = FALSE
    /\ wpc' = "w_mark"
    /\ UNCHANGED << num_chunks, chunks_, end_ptr_, acquired_write_ptr_,
                    acquired_write_len_, acquired_end_ptr_, aw_rd_ptr, aw_ok,
                    aw_waiting, aw_reads >>
    /\ UNCHANGED << streaming_, ctx_stream_state >>
    /\ UNCHANGED << reader_vars, rctx, rapi, notcrb >>

\* data_cb, after commitWrite: if (ctx.stream_state == IDLE) the context
\* becomes STREAMING and setStreaming(true) is called
DataCb_MarkStreaming ==
    /\ wpc = "w_mark"
    /\ IF ctx_stream_state = "IDLE"
       THEN /\ ctx_stream_state' = "STREAMING"
            /\ streaming_' = SetStreaming(TRUE)
       ELSE UNCHANGED << ctx_stream_state, streaming_ >>
    /\ wpc' = "w_idle"
    /\ UNCHANGED << num_chunks, chunks_, write_ptr_, end_ptr_, acquired_write_ptr_,
                    acquired_write_len_, acquired_end_ptr_, aw_rd_ptr, aw_ok, committed,
                    aw_waiting, aw_reads, written_since_idle >>
    /\ UNCHANGED << reader_vars, rctx, wapi, rapi, notcrb >>

\* data_cb called with block_info.stream_state == IDLE (the zero-length event
\* the worker emits when streaming has stopped): setStreaming(false), return
DataCb_IdleNotification ==
    /\ wpc = "w_idle"
    /\ streaming_' = SetStreaming(FALSE)
    /\ written_since_idle' = FALSE
    /\ UNCHANGED << num_chunks, chunks_, write_ptr_, end_ptr_, acquired_write_ptr_,
                    acquired_write_len_, acquired_end_ptr_, wpc, aw_rd_ptr, aw_ok, committed,
                    aw_waiting, aw_reads, ctx_stream_state >>
    /\ UNCHANGED << reader_vars, rctx, wapi, rapi, notcrb >>

\* acquireRead, first step: wr_ptr = write_ptr_.load(acquire)
AcquireRead_LoadWr ==
    /\ rpc = "r_idle"
    /\ ar_wr_ptr' = write_ptr_
    /\ ar_waiting' = Waiting
    /\ rpc' = "ar_calc"
    /\ period' = NewPeriod
    /\ UNCHANGED << num_chunks, chunks_, read_ptr_, acquired_read_ptr_,
                    acquired_read_len_, ar_ok, got, obtained >>
    /\ UNCHANGED << writer_vars, wctx, wapi, rapi, notcrb >>

\* acquireRead: rd_ptr = read_ptr_.load(relaxed) and the state check; in state 1
\* the result is computed from the two loaded pointers alone
AcquireRead_Calc ==
    /\ rpc = "ar_calc"
    /\ IF ar_wr_ptr >= read_ptr_
       THEN LET r == AcquireReadState1(ar_wr_ptr, read_ptr_)
            IN  /\ acquired_read_ptr_' = r.ptr
                /\ acquired_read_len_' = r.len
                /\ ar_ok' = (r.len # 0)
                /\ r_acq' = (r_acq \/ r.len # 0)
                /\ rpc' = "ar_ret"
       ELSE /\ rpc' = "ar_end"
            /\ UNCHANGED << acquired_read_ptr_, acquired_read_len_, ar_ok, r_acq >>
    /\ UNCHANGED cr_ok
    /\ UNCHANGED << num_chunks, chunks_, read_ptr_, ar_wr_ptr, got, obtained, ar_waiting >>
    /\ UNCHANGED << writer_vars, wctx, rctx, wapi, notcrb >>

\* acquireRead in state 2: the read of the plain member end_ptr_
AcquireRead_LoadEnd ==
    /\ rpc = "ar_end"
    /\ LET r == AcquireReadState2(ar_wr_ptr, read_ptr_, end_ptr_)
       IN  /\ acquired_read_ptr_' = r.ptr
           /\ acquired_read_len_' = r.len
           /\ ar_ok' = (r.len # 0)
           /\ r_acq' = (r_acq \/ r.len # 0)
    /\ rpc' = "ar_ret"
    /\ UNCHANGED cr_ok
    /\ UNCHANGED << num_chunks, chunks_, read_ptr_, ar_wr_ptr, got, obtained, ar_waiting >>
    /\ UNCHANGED << writer_vars, wctx, rctx, wapi, notcrb >>

\* audio thread: acquireRead returned true, the metadata is read from the chunk
Reader_ReadMeta ==
    /\ rpc = "ar_ret"
    /\ ar_ok
    /\ got' = [got EXCEPT !.m = chunks_[acquired_read_ptr_].m]
    /\ rpc' = "r_buf"
    /\ UNCHANGED << num_chunks, chunks_, read_ptr_, acquired_read_ptr_,
                    acquired_read_len_, ar_wr_ptr, ar_ok, obtained, ar_waiting >>
    /\ UNCHANGED << writer_vars, wctx, rctx, wapi, rapi, notcrb >>

\* audio thread: the channel samples are read from the chunk
Reader_ReadBuf ==
    /\ rpc = "r_buf"
    /\ got' = [got EXCEPT !.buf = chunks_[acquired_read_ptr_].buf]
    /\ rpc' = "cr"
    /\ UNCHANGED << num_chunks, chunks_, read_ptr_, acquired_read_ptr_,
                    acquired_read_len_, ar_wr_ptr, ar_ok, obtained, ar_waiting >>
    /\ UNCHANGED << writer_vars, wctx, rctx, wapi, rapi, notcrb >>

\* the warning as it was before: logged once samples have been received
Reader_UnderrunWarn_SamplesReceived ==
    /\ rpc = "ar_ret"
    /\ ~ar_ok
    /\ period' = [period EXCEPT !.failed = TRUE, !.warned = (Len(obtained) > 0)]
    /\ rpc' = "r_silence"
    /\ UNCHANGED << num_chunks, chunks_, read_ptr_, acquired_read_ptr_,
                    acquired_read_len_, ar_wr_ptr, ar_ok, got, obtained, ar_waiting >>
    /\ UNCHANGED << writer_vars, wctx, wapi, rapi, notcrb >>

\* audio thread: acquireRead returned false; if (isStreaming()) the warning
\* is logged
Reader_UnderrunWarn ==
    /\ rpc = "ar_ret"
    /\ ~ar_ok
    /\ period' = [period EXCEPT !.failed = TRUE, !.warned = IsStreaming]
    /\ rpc' = "r_silence"
    /\ UNCHANGED << num_chunks, chunks_, read_ptr_, acquired_read_ptr_,
                    acquired_read_len_, ar_wr_ptr, ar_ok, got, obtained, ar_waiting >>
    /\ UNCHANGED << writer_vars, wctx, wapi, rapi, notcrb >>

\* audio thread, underrun: snd_pcm_writei(ctx.silence, CH_IQ_BUF_SIZE), one
\* period of silence
Reader_Underrun ==
    /\ rpc = "r_silence"
    /\ period' = [period EXCEPT !.silence = @ + 1]
    /\ rpc' = "r_idle"
    /\ UNCHANGED << num_chunks, chunks_, read_ptr_, acquired_read_ptr_,
                    acquired_read_len_, ar_wr_ptr, ar_ok, got, obtained, ar_waiting >>
    /\ UNCHANGED << writer_vars, wctx, wapi, rapi, notcrb >>

\* commitRead without the test of acquired_read_len_
CommitRead_NoCheck ==
    /\ rpc \in {"cr", "cr_again"}
    /\ acquired_read_len_' = 0
    /\ read_ptr_' = acquired_read_ptr_ + 1
    /\ obtained' = Append(obtained, got)
    /\ cr_ok' = TRUE
    /\ r_acq' = FALSE
    /\ rpc' = (IF rpc = "cr" THEN "r_write" ELSE "r_idle")
    /\ UNCHANGED << num_chunks, chunks_, acquired_read_ptr_, ar_wr_ptr, ar_ok, got,
                    ar_waiting >>
    /\ UNCHANGED << writer_vars, wctx, rctx, wapi, notcrb >>

\* commitRead: false if acquired_read_len_ == 0, else acquired_read_len_ = 0
\* and read_ptr_.store(acquired_read_ptr_ + 1, release)
CommitRead ==
    /\ rpc \in {"cr", "cr_again"}
    /\ IF acquired_read_len_ = 0
       THEN /\ cr_ok' = FALSE
            /\ UNCHANGED << acquired_read_len_, read_ptr_, obtained >>
       ELSE /\ acquired_read_len_' = 0
            /\ read_ptr_' = acquired_read_ptr_ + 1
            /\ obtained' = Append(obtained, got)
            /\ cr_ok' = TRUE
    /\ r_acq' = FALSE
    /\ rpc' = (IF rpc = "cr" THEN "r_write" ELSE "r_idle")
    /\ UNCHANGED << num_chunks, chunks_, acquired_read_ptr_, ar_wr_ptr, ar_ok, got,
                    ar_waiting >>
    /\ UNCHANGED << writer_vars, wctx, rctx, wapi, notcrb >>

\* audio thread, after commitRead: the mixed audio is filtered, converted and
\* written with snd_pcm_writei(ctx.audio_buffer_s16, CH_IQ_BUF_SIZE)
Reader_WriteAudio ==
    /\ rpc = "r_write"
    /\ period' = [period EXCEPT !.audio = @ + 1]
    /\ rpc' = "r_idle"
    /\ UNCHANGED << num_chunks, chunks_, read_ptr_, acquired_read_ptr_,
                    acquired_read_len_, ar_wr_ptr, ar_ok, got, obtained, ar_waiting >>
    /\ UNCHANGED << writer_vars, wctx, wapi, rapi, notcrb >>

CrbNext ==
    \/ AcquireWrite_LoadRd
    \/ AcquireWrite_Calc
    \/ DataCb_Decimate
    \/ DataCb_StoreMeta
    \/ DataCb_Overrun
    \/ CommitWrite_End
    \/ CommitWrite_Store
    \/ DataCb_MarkStreaming
    \/ DataCb_IdleNotification
    \/ AcquireRead_LoadWr
    \/ AcquireRead_Calc
    \/ AcquireRead_LoadEnd
    \/ Reader_ReadMeta
    \/ Reader_ReadBuf
    \/ Reader_UnderrunWarn
    \/ Reader_Underrun
    \/ CommitRead
    \/ Reader_WriteAudio

\* A CRB shared by the two threads; the device manager is constructed and not started
CrbSpecInit == CrbInit /\ DevConstructed /\ BlkConstructed /\ MainConstructed /\ DspConstructed
    /\ DsConstructed

CrbSpec == CrbSpecInit /\ [][CrbNext]_vars

\* A caller of the ring that commits a write without having acquired: the
\* call of commitWrite outside data_cb
CommitWrite_Again ==
    /\ wpc = "w_idle"
    /\ wpc' = "cw_again"
    /\ UNCHANGED << num_chunks, chunks_, write_ptr_, end_ptr_, acquired_write_ptr_,
                    acquired_write_len_, acquired_end_ptr_, aw_rd_ptr, aw_ok, committed,
                    aw_waiting, aw_reads >>
    /\ UNCHANGED << reader_vars, wctx, rctx, wapi, rapi, notcrb >>

\* A caller of the ring that commits a read without having acquired
CommitRead_Again ==
    /\ rpc = "r_idle"
    /\ rpc' = "cr_again"
    /\ UNCHANGED << num_chunks, chunks_, read_ptr_, acquired_read_ptr_,
                    acquired_read_len_, ar_wr_ptr, ar_ok, got, obtained, ar_waiting >>
    /\ UNCHANGED << writer_vars, wctx, rctx, wapi, rapi, notcrb >>

CrbApiNext ==
    \/ CrbNext
    \/ CommitWrite_Again
    \/ CommitRead_Again

\* The ring under callers that also commit when they have not acquired
CrbApiSpec == CrbSpecInit /\ [][CrbApiNext]_vars

\* ------------------------------------------------------------------------
\* Device manager: control thread, worker thread, device
\* ------------------------------------------------------------------------

\* The CRB as constructed by main, untouched while only the device manager runs
CrbConstructed ==
    /\ CrbInit
    /\ num_chunks = MaxChunks
    /\ acquired_write_ptr_ = 0
    /\ acquired_end_ptr_ = 0
    /\ acquired_read_ptr_ = 0

\* R820Dev::create: an RtlDev or an AirspyDev; the device is plugged in or not
DevInit ==
    /\ dev_type \in {"RTL", "AIRSPY"}
    /\ run_ = FALSE
    /\ state_ = "IDLE"
    /\ dev_ = "null"
    /\ stream_state = "IDLE"
    /\ kpc = "none"
    /\ cpc = "c_idle"
    /\ last_call = "none"
    /\ ret = "none"
    /\ dev_ok \in BOOLEAN
    /\ starts = 0
    /\ retried = FALSE
    /\ evlog = NoEvents
    /\ fq_ = DEFAULT_FQ
    /\ dev_fq = DEFAULT_FQ
    /\ fq_deferred = FALSE

\* a start() without the test of run_: it always sets up and creates a worker
Start_Restart ==
    /\ cpc = "c_idle"
    /\ starts < MaxStarts
    /\ last_call' = "start"
    /\ stream_state' = "IDLE"
    /\ state_' = "STARTING"
    /\ run_' = TRUE
    /\ kpc' = "w_loop"
    /\ starts' = starts + 1
    /\ retried' = FALSE
    /\ ret' = "OK"
    /\ UNCHANGED << dev_type, dev_, cpc, dev_ok >>
    /\ UNCHANGED << tunevars, evvars, notdev >>

\* start(): ALREADY_STARTED if run_; INVALID_SAMPLE_RATE if fs_ is not among
\* get_sample_rates(serial_), which for an Airspy is empty when the device
\* cannot be opened (fs_ is a rate the device has); else state_ = STARTING,
\* run_ = true and the worker thread is created
Start ==
    /\ cpc = "c_idle"
    /\ starts < MaxStarts
    /\ last_call' = "start"
    /\ IF run_
       THEN /\ ret' = "ALREADY_STARTED"
            /\ UNCHANGED << state_, run_, kpc, starts, stream_state, retried >>
       ELSE IF dev_type = "AIRSPY" /\ ~dev_ok
       THEN /\ ret' = "INVALID_SAMPLE_RATE"
            /\ UNCHANGED << state_, run_, kpc, starts, stream_state, retried >>
       ELSE /\ stream_state' = "IDLE"
            /\ state_' = "STARTING"
            /\ run_' = TRUE
            /\ kpc' = "w_loop"
            /\ starts' = starts + 1
            /\ retried' = FALSE
            /\ ret' = "OK"
    /\ UNCHANGED << dev_type, dev_, cpc, dev_ok >>
    /\ UNCHANGED << tunevars, evvars, notdev >>

\* stop(), first step: ALREADY_STOPPED if !run_, else run_ = false
Stop_Begin ==
    /\ cpc = "c_idle"
    /\ IF ~run_
       THEN /\ ret' = "ALREADY_STOPPED"
            /\ last_call' = "stop"
            /\ UNCHANGED << run_, cpc >>
       ELSE /\ run_' = FALSE
            /\ cpc' = "stop_state"
            /\ UNCHANGED << ret, last_call >>
    /\ UNCHANGED << dev_type, state_, dev_, stream_state, kpc, dev_ok, starts, retried >>
    /\ UNCHANGED << tunevars, evvars, notdev >>

\* stop(), second step: state_ = State::STOPPING
Stop_SetState ==
    /\ cpc = "stop_state"
    /\ state_' = "STOPPING"
    /\ cpc' = "stop_join"
    /\ UNCHANGED << dev_type, run_, dev_, stream_state, kpc, last_call, ret, dev_ok, starts, retried >>
    /\ UNCHANGED << tunevars, evvars, notdev >>

\* stop(), third step: worker_thread_.join() returns once the worker has ended
Stop_Join ==
    /\ cpc = "stop_join"
    /\ kpc = "w_done"
    /\ cpc' = "c_idle"
    /\ last_call' = "stop"
    /\ ret' = "OK"
    /\ UNCHANGED << dev_type, run_, state_, dev_, stream_state, kpc, dev_ok, starts, retried >>
    /\ UNCHANGED << tunevars, evvars, notdev >>

\* The frequencies the control thread asks for: the limits and one past each
FqInputs == {MIN_FQ - 1, MIN_FQ, MAX_FQ, MAX_FQ + 1}

\* setFq(fq), first step: INVALID_FQ outside [MIN_FQ, MAX_FQ], else fq_ = fq
SetFq_Store ==
    /\ cpc = "c_idle"
    /\ \E fq \in FqInputs :
         IF fq < MIN_FQ \/ fq > MAX_FQ
         THEN /\ ret' = "INVALID_FQ"
              /\ last_call' = "setFq"
              /\ UNCHANGED << fq_, cpc >>
         ELSE /\ fq_' = fq
              /\ cpc' = "fq_chk_dev"
              /\ UNCHANGED << ret, last_call >>
    /\ UNCHANGED << dev_type, run_, state_, dev_, stream_state, kpc, dev_ok, starts, retried >>
    /\ UNCHANGED << dev_fq, fq_deferred, evvars, notdev >>

\* setFq: if (dev_ && ...): with dev_ null the value stays cached, return OK
SetFq_CheckDev ==
    /\ cpc = "fq_chk_dev"
    /\ IF dev_ = "open"
       THEN /\ cpc' = "fq_chk_state"
            /\ UNCHANGED << ret, last_call, fq_deferred >>
       ELSE /\ cpc' = "c_idle"
            /\ ret' = "OK"
            /\ last_call' = "setFq"
            /\ fq_deferred' = TRUE
    /\ UNCHANGED << dev_type, run_, state_, dev_, stream_state, kpc, dev_ok, starts, retried >>
    /\ UNCHANGED << fq_, dev_fq, evvars, notdev >>

\* setFq: if (... && state_ == State::RUNNING): in any other state the value
\* stays cached, return OK
SetFq_CheckState ==
    /\ cpc = "fq_chk_state"
    /\ IF state_ = "RUNNING"
       THEN /\ cpc' = "fq_apply"
            /\ UNCHANGED << ret, last_call, fq_deferred >>
       ELSE /\ cpc' = "c_idle"
            /\ ret' = "OK"
            /\ last_call' = "setFq"
            /\ fq_deferred' = TRUE
    /\ UNCHANGED << dev_type, run_, state_, dev_, stream_state, kpc, dev_ok, starts, retried >>
    /\ UNCHANGED << fq_, dev_fq, evvars, notdev >>

\* setFq: the vendor call on dev_ with fq_. On an open device that answers it
\* sets the frequency; on one that does not answer it fails; on a handle the
\* worker has closed since the check its outcome is not defined
SetFq_Apply ==
    /\ cpc = "fq_apply"
    /\ cpc' = "c_idle"
    /\ last_call' = "setFq"
    /\ fq_deferred' = FALSE
    /\ IF dev_ = "open"
       THEN IF dev_ok
            THEN dev_fq' = fq_ /\ ret' = "OK"
            ELSE ret' = "ERROR" /\ UNCHANGED dev_fq
       ELSE ret' \in {"OK", "ERROR"} /\ UNCHANGED dev_fq
    /\ UNCHANGED << dev_type, run_, state_, dev_, stream_state, kpc, dev_ok, starts, retried >>
    /\ UNCHANGED << fq_, evvars, notdev >>

\* worker_: while (self.run_)
Worker_CheckRun ==
    /\ kpc = "w_loop"
    /\ kpc' = IF run_ THEN "w_open" ELSE "w_exit"
    /\ UNCHANGED << dev_type, run_, state_, dev_, stream_state, cpc, last_call, ret,
                    dev_ok, starts, retried >>
    /\ UNCHANGED << tunevars, evvars, notdev >>

\* worker_: ret = self.open_(); OK leaves dev_ open and configured with the
\* cached fq_ as open_ read it, an error leaves dev_ null
Worker_Open ==
    /\ kpc = "w_open"
    /\ IF dev_ok
       THEN /\ dev_' = "open"
            /\ dev_fq' = fq_
            /\ kpc' = IF dev_type = "RTL" THEN "r_set_running" ELSE "a_start_rx"
       ELSE /\ dev_' = "null"
            /\ kpc' = "w_sleep_fail"
            /\ UNCHANGED dev_fq
    /\ UNCHANGED << dev_type, run_, state_, stream_state, cpc, last_call, ret,
                    dev_ok, starts, retried >>
    /\ UNCHANGED << fq_, fq_deferred, evvars, notdev >>

\* a worker that gives up after a failed open
Worker_SleepFail_GiveUp ==
    /\ kpc = "w_sleep_fail"
    /\ kpc' = "w_exit"
    /\ UNCHANGED << dev_type, run_, state_, dev_, stream_state, cpc, last_call, ret,
                    dev_ok, starts >>
    /\ retried' = TRUE
    /\ UNCHANGED << tunevars, evvars, notdev >>

\* worker_: open_ failed, sleep_for(1000 ms), next iteration
Worker_SleepFail ==
    /\ kpc = "w_sleep_fail"
    /\ kpc' = "w_loop"
    /\ UNCHANGED << dev_type, run_, state_, dev_, stream_state, cpc, last_call, ret,
                    dev_ok, starts >>
    /\ retried' = TRUE
    /\ UNCHANGED << tunevars, evvars, notdev >>

\* worker_, after the loop: self.state_ = State::IDLE, the thread ends
Worker_Exit ==
    /\ kpc = "w_exit"
    /\ state_' = "IDLE"
    /\ kpc' = "w_done"
    /\ UNCHANGED << dev_type, run_, dev_, stream_state, cpc, last_call, ret, dev_ok, starts, retried >>
    /\ UNCHANGED << tunevars, evvars, notdev >>

\* RtlDev::worker_: state_ = RUNNING, stream_state = STREAMING, rtlsdr_read_async entered
Rtl_SetRunning ==
    /\ kpc = "r_set_running"
    /\ state_' = "RUNNING"
    /\ stream_state' = "STREAMING"
    /\ kpc' = "r_stream"
    /\ UNCHANGED << dev_type, run_, dev_, cpc, last_call, ret, dev_ok, starts, retried >>
    /\ UNCHANGED << tunevars, notdev >>
    /\ evlog' = EvBegin(evlog)

\* RtlDev::data_cb_, called from rtlsdr_read_async while the device delivers:
\* with run_ false it cancels the transfer and read_async returns, else it emits
Rtl_DataCb ==
    /\ kpc = "r_stream"
    /\ dev_ok
    /\ kpc' = IF ~run_ THEN "r_close" ELSE "r_stream"
    /\ UNCHANGED << dev_type, run_, state_, dev_, stream_state, cpc, last_call, ret,
                    dev_ok, starts, retried >>
    /\ UNCHANGED << tunevars, notdev >>
    /\ evlog' = (IF ~run_ THEN evlog ELSE EvBlock(evlog, stream_state))

\* rtlsdr_read_async returns because the device is gone
Rtl_StreamLost ==
    /\ kpc = "r_stream"
    /\ ~dev_ok
    /\ kpc' = "r_close"
    /\ UNCHANGED << dev_type, run_, state_, dev_, stream_state, cpc, last_call, ret,
                    dev_ok, starts, retried >>
    /\ UNCHANGED << tunevars, evvars, notdev >>

\* a worker that sends the zero-length IDLE event only when it goes on to
\* reopen the device
Rtl_Close_IdleOnLoss ==
    /\ kpc = "r_close"
    /\ dev_' = "null"
    /\ stream_state' = "IDLE"
    /\ kpc' = "r_chk_run"
    /\ UNCHANGED << dev_type, run_, state_, cpc, last_call, ret, dev_ok, starts, retried >>
    /\ UNCHANGED << tunevars, notdev >>
    /\ evlog' = (IF run_ THEN EvIdle(evlog) ELSE evlog)

\* RtlDev::worker_: rtlsdr_close, dev_ = nullptr, the zero-length IDLE data event
Rtl_Close ==
    /\ kpc = "r_close"
    /\ dev_' = "null"
    /\ stream_state' = "IDLE"
    /\ kpc' = "r_chk_run"
    /\ UNCHANGED << dev_type, run_, state_, cpc, last_call, ret, dev_ok, starts, retried >>
    /\ UNCHANGED << tunevars, notdev >>
    /\ evlog' = EvIdle(evlog)

\* RtlDev::worker_: if (self.run_)
Rtl_CheckRestart ==
    /\ kpc = "r_chk_run"
    /\ kpc' = IF run_ THEN "r_set_restarting" ELSE "w_loop"
    /\ UNCHANGED << dev_type, run_, state_, dev_, stream_state, cpc, last_call, ret,
                    dev_ok, starts, retried >>
    /\ UNCHANGED << tunevars, evvars, notdev >>

\* RtlDev::worker_: self.state_ = State::RESTARTING
Rtl_SetRestarting ==
    /\ kpc = "r_set_restarting"
    /\ state_' = "RESTARTING"
    /\ kpc' = "r_sleep"
    /\ UNCHANGED << dev_type, run_, dev_, stream_state, cpc, last_call, ret, dev_ok, starts, retried >>
    /\ UNCHANGED << tunevars, evvars, notdev >>

\* a worker that goes back to STARTING for the retry
Rtl_Sleep_ToStarting ==
    /\ kpc = "r_sleep"
    /\ state_' = "STARTING"
    /\ kpc' = "w_loop"
    /\ UNCHANGED << dev_type, run_, dev_, stream_state, cpc, last_call, ret, dev_ok, starts >>
    /\ retried' = TRUE
    /\ UNCHANGED << tunevars, evvars, notdev >>

\* RtlDev::worker_: sleep_for(1000 ms) after the loss of streaming, next iteration
Rtl_Sleep ==
    /\ kpc = "r_sleep"
    /\ kpc' = "w_loop"
    /\ UNCHANGED << dev_type, run_, state_, dev_, stream_state, cpc, last_call, ret,
                    dev_ok, starts >>
    /\ retried' = TRUE
    /\ UNCHANGED << tunevars, evvars, notdev >>

\* AirspyDev::worker_: stream_state = STREAMING, ret = airspy_start_rx(...)
Airspy_StartRx ==
    /\ kpc = "a_start_rx"
    /\ stream_state' = "STREAMING"
    /\ kpc' = IF dev_ok THEN "a_set_running" ELSE "a_close"
    /\ UNCHANGED << dev_type, run_, state_, dev_, cpc, last_call, ret, dev_ok, starts, retried >>
    /\ UNCHANGED << tunevars, notdev >>
    /\ evlog' = (IF dev_ok THEN EvBegin(evlog) ELSE evlog)

\* AirspyDev::worker_: self.state_ = State::RUNNING
Airspy_SetRunning ==
    /\ kpc = "a_set_running"
    /\ state_' = "RUNNING"
    /\ kpc' = "a_poll"
    /\ UNCHANGED << dev_type, run_, dev_, stream_state, cpc, last_call, ret, dev_ok, starts, retried >>
    /\ UNCHANGED << tunevars, evvars, notdev >>

\* AirspyDev::worker_: while (self.run_ && airspy_is_streaming(dev_)) sleep_for(100 ms)
Airspy_Poll ==
    /\ kpc = "a_poll"
    /\ kpc' = IF run_ /\ dev_ok THEN "a_poll" ELSE "a_stop_rx"
    /\ UNCHANGED << dev_type, run_, state_, dev_, stream_state, cpc, last_call, ret,
                    dev_ok, starts, retried >>
    /\ UNCHANGED << tunevars, evvars, notdev >>

\* AirspyDev::worker_: airspy_stop_rx and the zero-length IDLE data event
Airspy_StopRx ==
    /\ kpc = "a_stop_rx"
    /\ stream_state' = "IDLE"
    /\ kpc' = "a_chk_run"
    /\ UNCHANGED << dev_type, run_, state_, dev_, cpc, last_call, ret, dev_ok, starts, retried >>
    /\ UNCHANGED << tunevars, notdev >>
    /\ evlog' = EvIdle(evlog)

\* AirspyDev::worker_: if (self.run_)
Airspy_CheckRestart ==
    /\ kpc = "a_chk_run"
    /\ kpc' = IF run_ THEN "a_set_restarting" ELSE "a_close"
    /\ UNCHANGED << dev_type, run_, state_, dev_, stream_state, cpc, last_call, ret,
                    dev_ok, starts, retried >>
    /\ UNCHANGED << tunevars, evvars, notdev >>

\* AirspyDev::worker_: self.state_ = State::RESTARTING
Airspy_SetRestarting ==
    /\ kpc = "a_set_restarting"
    /\ state_' = "RESTARTING"
    /\ kpc' = "a_close"
    /\ UNCHANGED << dev_type, run_, dev_, stream_state, cpc, last_call, ret, dev_ok, starts, retried >>
    /\ UNCHANGED << tunevars, evvars, notdev >>

\* AirspyDev::worker_: stream_state = IDLE, airspy_close, dev_ = nullptr
Airspy_Close ==
    /\ kpc = "a_close"
    /\ stream_state' = "IDLE"
    /\ dev_' = "null"
    /\ kpc' = "a_sleep"
    /\ UNCHANGED << dev_type, run_, state_, cpc, last_call, ret, dev_ok, starts, retried >>
    /\ UNCHANGED << tunevars, evvars, notdev >>

\* AirspyDev::worker_: if (self.run_) sleep_for(1000 ms); next iteration
Airspy_Sleep ==
    /\ kpc = "a_sleep"
    /\ kpc' = "w_loop"
    /\ UNCHANGED << dev_type, run_, state_, dev_, stream_state, cpc, last_call, ret,
                    dev_ok, starts >>
    /\ retried' = (retried \/ run_)
    /\ UNCHANGED << tunevars, evvars, notdev >>

\* AirspyDev::data_cb_, called by the thread of libairspy between
\* airspy_start_rx and the return of airspy_stop_rx: with run_ false it
\* returns at once, else a transfer that fills a block emits it
Airspy_DataCb ==
    /\ kpc \in {"a_set_running", "a_poll", "a_stop_rx"}
    /\ dev_ok
    /\ run_
    /\ evlog' = EvBlock(evlog, stream_state)
    /\ UNCHANGED devvars
    /\ UNCHANGED << tunevars, notdev >>

\* The device is plugged in
Device_Plug ==
    /\ ~dev_ok
    /\ dev_ok' = TRUE
    /\ UNCHANGED << dev_type, run_, state_, dev_, stream_state, kpc, cpc, last_call, ret,
                    starts, retried >>
    /\ UNCHANGED << tunevars, evvars, notdev >>

\* The device is unplugged or stops answering
Device_Unplug ==
    /\ dev_ok
    /\ dev_ok' = FALSE
    /\ UNCHANGED << dev_type, run_, state_, dev_, stream_state, kpc, cpc, last_call, ret,
                    starts, retried >>
    /\ UNCHANGED << tunevars, evvars, notdev >>

\* The steps of the worker thread
WorkerNext ==
    \/ Worker_CheckRun
    \/ Worker_Open
    \/ Worker_SleepFail
    \/ Worker_Exit
    \/ Rtl_SetRunning
    \/ Rtl_DataCb
    \/ Rtl_StreamLost
    \/ Rtl_Close
    \/ Rtl_CheckRestart
    \/ Rtl_SetRestarting
    \/ Rtl_Sleep
    \/ Airspy_StartRx
    \/ Airspy_SetRunning
    \/ Airspy_Poll
    \/ Airspy_StopRx
    \/ Airspy_CheckRestart
    \/ Airspy_SetRestarting
    \/ Airspy_Close
    \/ Airspy_Sleep

DevNext ==
    \/ Start
    \/ Stop_Begin
    \/ Stop_SetState
    \/ Stop_Join
    \/ SetFq_Store
    \/ SetFq_CheckDev
    \/ SetFq_CheckState
    \/ SetFq_Apply
    \/ WorkerNext
    \/ Airspy_DataCb
    \/ Device_Plug
    \/ Device_Unplug

\* A device manager as created by main; the ring is constructed and not used
DevSpecInit == DevInit /\ CrbConstructed /\ BlkConstructed /\ MainConstructed /\ DspConstructed
    /\ DsConstructed

DevSpec == DevSpecInit /\ [][DevNext]_vars

\* The worker thread is scheduled: it is not suspended forever
DevFairSpec == DevSpec /\ WF_vars(WorkerNext)

\* ------------------------------------------------------------------------
\* Device manager: assembly of the data events from the vendor transfers
\* ------------------------------------------------------------------------

\* sample_rate_to_uint of the rates get_sample_rates returns for an RTL dongle
RtlRates == {960000, 1200000, 1440000, 1600000, 1920000, 2400000, 2560000}

\* sample_rate_to_uint of the SampleRate values of the Airspy R2 and Mini
AirspyRates == {2500000, 3000000, 6000000, 10000000}

\* AirspyDev::AirspyDev: block_size_ = sample_rate_to_uint(fs_) * 4 / 125, in
\* unsigned 32 bit arithmetic; the largest product, 40 000 000, does not wrap
AirspyBlockSize(fs) == (fs * 4) \div 125

\* the buffer size of one fixed rate, as RTL_IQ_BUF_SIZE once was
RtlIqBuffSize_Fixed(fs) == 512 * 75 * 2

\* RtlDev::worker_: rtl_iq_buff_size = 512 * down_sampling_factor * 2, the
\* number of bytes asked of rtlsdr_read_async for every transfer
RtlIqBuffSize(fs) == 512 * (fs \div 16000) * 2

\* The sample counts of the transfers libairspy hands to data_cb_
PayloadSizes == {16384, 65536, 131072, 700000}

\* R820Dev::create with a rate the device supports; AirspyDev::AirspyDev
\* computes block_size_, RtlDev has no such member
BlkInit ==
    /\ fs_ \in (IF dev_type = "RTL" THEN RtlRates ELSE AirspyRates)
    /\ block_size_ = (IF dev_type = "RTL" THEN 0 ELSE AirspyBlockSize(fs_))
    /\ part_pos_ = 0
    /\ iq_pos_ = 0
    /\ in_session = FALSE
    /\ session = 0
    /\ blk_first = 0
    /\ emitted = << >>
    /\ transfers = 0
    /\ iq_buffer_ = {}
    /\ received = 0
    /\ nblocks = 0
    /\ blocks = << >>

\* A data event: stream_state of block_info_, data_len, and the sessions of
\* its oldest and newest sample
DataEvent(st, len, first, last) ==
    [state |-> st, len |-> len, first |-> first, last |-> last]

\* The for loop of AirspyDev::data_cb_ over sample_count samples. The run of
\* iterations that only store a sample is taken in one stride; the iteration
\* in which iq_pos_ reaches block_size_ emits, flips part_pos_ and zeroes iq_pos_
RECURSIVE AirspyLoop(_, _, _, _, _)
AirspyLoop(count, pos, part, first, out) ==
    IF count < block_size_ - pos
    THEN [iq_pos |-> pos + count, part_pos |-> part,
          first |-> (IF pos + count = 0 THEN 0 ELSE IF pos = 0 THEN session ELSE first),
          out |-> out]
    ELSE AirspyLoop(count - (block_size_ - pos), 0,
                    IF part = 0 THEN block_size_ ELSE 0,
                    0,
                    Append(out, DataEvent("STREAMING", block_size_,
                                          IF pos = 0 THEN session ELSE first, session)))

\* iq_buffer_ is kept as a set of runs [lo, hi, id]: the positions lo..hi-1
\* hold the samples id, id+1, ... in that order; a position in no run has
\* never been written. Store(buf, lo, hi, id) is the buffer after
\* iq_buffer_[lo..hi-1] have been assigned the samples id..
Store(buf, lo, hi, id) ==
    {[lo |-> r.lo, hi |-> IF r.hi < lo THEN r.hi ELSE lo, id |-> r.id] :
        r \in {q \in buf : q.lo < lo}}
    \cup {[lo |-> hi, hi |-> r.hi, id |-> r.id + (hi - r.lo)] :
        r \in {q \in buf : q.hi > hi /\ q.lo < hi}}
    \cup {r \in buf : r.lo >= hi}
    \cup {[lo |-> lo, hi |-> hi, id |-> id]}

\* What a reader of iq_buffer_[lo..hi-1] finds: the runs cut to that range
Load(buf, lo, hi) ==
    {[lo |-> IF r.lo > lo THEN r.lo ELSE lo,
      hi |-> IF r.hi < hi THEN r.hi ELSE hi,
      id |-> IF r.lo > lo THEN r.id ELSE r.id + (lo - r.lo)] :
        r \in {q \in buf : q.lo < hi /\ q.hi > lo}}

\* data_cb_ that does not change the half of the buffer after an emission
RECURSIVE AirspyStore_NoFlip(_, _, _, _, _, _, _)
AirspyStore_NoFlip(count, pos, part, buf, n, no, out) ==
    IF count < block_size_ - pos
    THEN [buf |-> IF count = 0 THEN buf
                  ELSE Store(buf, part + pos, part + pos + count, n + 1),
          n |-> n + count, no |-> no, out |-> out]
    ELSE LET k == block_size_ - pos
             b == Store(buf, part + pos, part + block_size_, n + 1)
         IN  AirspyStore_NoFlip(count - k, 0, part,
                         b, n + k, no + 1,
                         Append(out, [no |-> no + 1, part |-> part,
                                      data |-> Load(b, part, part + block_size_)]))

\* The for loop of AirspyDev::data_cb_ again, now with the samples: sample
\* n + 1, n + 2, ... are stored at iq_buffer_[part_pos_ + iq_pos_] and on,
\* and the block emitted is what iq_buffer_[part_pos_ ..] holds at the call
\* of self.data
RECURSIVE AirspyStore(_, _, _, _, _, _, _)
AirspyStore(count, pos, part, buf, n, no, out) ==
    IF count < block_size_ - pos
    THEN [buf |-> IF count = 0 THEN buf
                  ELSE Store(buf, part + pos, part + pos + count, n + 1),
          n |-> n + count, no |-> no, out |-> out]
    ELSE LET k == block_size_ - pos
             b == Store(buf, part + pos, part + block_size_, n + 1)
         IN  AirspyStore(count - k, 0, IF part = 0 THEN block_size_ ELSE 0,
                         b, n + k, no + 1,
                         Append(out, [no |-> no + 1, part |-> part,
                                      data |-> Load(b, part, part + block_size_)]))

\* worker_ after a successful open_: stream_state = STREAMING and
\* airspy_start_rx / rtlsdr_read_async; the vendor library starts to deliver
Worker_BeginStreaming ==
    /\ ~in_session
    /\ session < MaxSessions
    /\ in_session' = TRUE
    /\ session' = session + 1
    /\ emitted' = << >>
    /\ UNCHANGED << fs_, block_size_, part_pos_, iq_pos_, blk_first, transfers >>
    /\ blocks' = << >>
    /\ UNCHANGED << iq_buffer_, received, nblocks >>
    /\ UNCHANGED notblk

\* AirspyDev::data_cb_ with run_ true, for a transfer of sample_count samples
Airspy_Transfer ==
    /\ dev_type = "AIRSPY"
    /\ in_session
    /\ transfers < MaxTransfers
    /\ \E sample_count \in PayloadSizes :
         LET r == AirspyLoop(sample_count, iq_pos_, part_pos_, blk_first, << >>)
         IN  /\ iq_pos_' = r.iq_pos
             /\ part_pos_' = r.part_pos
             /\ blk_first' = r.first
             /\ emitted' = r.out
             /\ LET b == AirspyStore(sample_count, iq_pos_, part_pos_, iq_buffer_,
                                     received, nblocks, << >>)
                IN  /\ iq_buffer_' = b.buf
                    /\ received' = b.n
                    /\ nblocks' = b.no
                    /\ blocks' = b.out
    /\ transfers' = transfers + 1
    /\ UNCHANGED << fs_, block_size_, in_session, session >>
    /\ UNCHANGED notblk

\* RtlDev::data_cb_ with run_ true, for a transfer of the data_len bytes asked
\* for: iq_pos = data_len / 2 samples are converted and emitted
Rtl_Transfer ==
    /\ dev_type = "RTL"
    /\ in_session
    /\ transfers < MaxTransfers
    /\ LET data_len == RtlIqBuffSize(fs_)
       IN  emitted' = << DataEvent("STREAMING", data_len \div 2, session, session) >>
    /\ transfers' = transfers + 1
    /\ UNCHANGED << fs_, block_size_, part_pos_, iq_pos_, in_session, session, blk_first >>
    /\ UNCHANGED << iq_buffer_, received, nblocks, blocks >>
    /\ UNCHANGED notblk

\* worker_ when streaming has stopped (device lost or run_ false):
\* airspy_stop_rx / return of rtlsdr_read_async, stream_state = IDLE and the
\* zero-length data event. part_pos_ and iq_pos_ are not touched
Worker_EndStreaming ==
    /\ in_session
    /\ in_session' = FALSE
    /\ emitted' = << DataEvent("IDLE", 0, session, session) >>
    /\ UNCHANGED << fs_, block_size_, part_pos_, iq_pos_, session, blk_first, transfers >>
    /\ blocks' = << >>
    /\ UNCHANGED << iq_buffer_, received, nblocks >>
    /\ UNCHANGED notblk

BlkNext ==
    \/ Worker_BeginStreaming
    \/ Airspy_Transfer
    \/ Rtl_Transfer
    \/ Worker_EndStreaming

\* A manager of either type, created with one of its supported rates
BlkSpecInit == DevInit /\ CrbConstructed /\ BlkInit /\ MainConstructed /\ DspConstructed
    /\ DsConstructed

BlkSpec == BlkSpecInit /\ [][BlkNext]_vars

\* ------------------------------------------------------------------------
\* The program: main, the audio thread, the signal handler
\* ------------------------------------------------------------------------

\* signal_handler: run = false
Signal_Handler ==
    /\ run
    /\ run' = FALSE
    /\ UNCHANGED << mpc, apc, exit_code >>
    /\ UNCHANGED notmain

\* main: std::thread alsa_thread(alsa_worker, ...)
Main_SpawnAlsa ==
    /\ mpc = "m_spawn"
    /\ mpc' = "m_start"
    /\ apc' = "al_open"
    /\ UNCHANGED << run, exit_code >>
    /\ UNCHANGED notmain

\* main: ret = device->start()
Main_Start ==
    /\ mpc = "m_start"
    /\ last_call # "start"
    /\ Start

\* main: if (ret < 0) goto quit; else the wait loop
Main_StartReturned ==
    /\ mpc = "m_start"
    /\ last_call = "start"
    /\ mpc' = (IF ret = "OK" THEN "m_wait" ELSE "m_delete")
    /\ UNCHANGED << run, apc, exit_code >>
    /\ UNCHANGED notmain

\* main: while (run) sleep(1)
Main_WaitRun ==
    /\ mpc = "m_wait"
    /\ mpc' = (IF run THEN "m_wait" ELSE "m_stop")
    /\ UNCHANGED << run, apc, exit_code >>
    /\ UNCHANGED notmain

\* main: ret = device->stop(), the three steps of stop()
Main_Stop ==
    /\ mpc = "m_stop"
    /\ last_call # "stop"
    /\ (Stop_Begin \/ Stop_SetState \/ Stop_Join)

\* main: stop() has returned; its return value is only logged
Main_StopReturned ==
    /\ mpc = "m_stop"
    /\ last_call = "stop"
    /\ mpc' = "m_delete"
    /\ UNCHANGED << run, apc, exit_code >>
    /\ UNCHANGED notmain

\* main, quit: delete device. R820Dev::~R820Dev asserts run_ == false and
\* state_ == State::IDLE; a failing assert aborts the program in a build that
\* keeps asserts and is skipped in a build with NDEBUG
Main_DeleteDevice ==
    /\ mpc = "m_delete"
    /\ IF ~run_ /\ state_ = "IDLE"
       THEN mpc' = "m_join"
       ELSE mpc' \in {"m_aborted", "m_join"}
    /\ UNCHANGED << run, apc, exit_code >>
    /\ UNCHANGED notmain

\* main: alsa_thread.join() returns once the audio thread has ended
Main_JoinAlsa ==
    /\ mpc = "m_join"
    /\ apc = "al_done"
    /\ mpc' = "m_return"
    /\ UNCHANGED << run, apc, exit_code >>
    /\ UNCHANGED notmain

\* main: "Stopped." and the end of main, which returns 0
Main_Return ==
    /\ mpc = "m_return"
    /\ exit_code' = "0"
    /\ mpc' = "m_exited"
    /\ UNCHANGED << run, apc >>
    /\ UNCHANGED notmain

\* alsa_worker: open_alsa_dev and the poll descriptors; the thread returns if
\* the sound device cannot be opened
Alsa_Open ==
    /\ apc = "al_open"
    /\ apc' \in {"al_loop", "al_done"}
    /\ UNCHANGED << run, mpc, exit_code >>
    /\ UNCHANGED notmain

\* alsa_worker: while (run)
Alsa_CheckRun ==
    /\ apc = "al_loop"
    /\ apc' = (IF run THEN "al_poll" ELSE "al_cleanup")
    /\ UNCHANGED << run, mpc, exit_code >>
    /\ UNCHANGED notmain

\* alsa_worker: poll() returns: an error or a timeout (continue), or POLLOUT
Alsa_Poll ==
    /\ apc = "al_poll"
    /\ apc' \in {"al_loop", "al_cb"}
    /\ UNCHANGED << run, mpc, exit_code >>
    /\ UNCHANGED notmain

\* alsa_worker: alsa_write_cb(ctx) runs its period and returns; the period
\* never waits on the ring
Alsa_WriteCb ==
    /\ apc = "al_cb"
    /\ apc' = "al_loop"
    /\ UNCHANGED << run, mpc, exit_code >>
    /\ UNCHANGED notmain

\* alsa_worker, after the loop: the plan, the device and the descriptors are
\* released and the thread ends
Alsa_Cleanup ==
    /\ apc = "al_cleanup"
    /\ apc' = "al_done"
    /\ UNCHANGED << run, mpc, exit_code >>
    /\ UNCHANGED notmain

\* The steps of main
MainThread ==
    \/ Main_SpawnAlsa
    \/ Main_Start
    \/ Main_StartReturned
    \/ Main_WaitRun
    \/ Main_Stop
    \/ Main_StopReturned
    \/ Main_DeleteDevice
    \/ Main_JoinAlsa
    \/ Main_Return

\* The steps of the audio thread
AlsaThread ==
    \/ Alsa_Open
    \/ Alsa_CheckRun
    \/ Alsa_Poll
    \/ Alsa_WriteCb
    \/ Alsa_Cleanup

MainNext ==
    \/ Signal_Handler
    \/ MainThread
    \/ AlsaThread
    \/ WorkerNext
    \/ Device_Plug
    \/ Device_Unplug

\* The program with its device created and set up, about to create the
\* audio thread
MainSpecInit == DevInit /\ CrbConstructed /\ BlkConstructed /\ MainConstructed /\ DspConstructed
    /\ DsConstructed

MainSpec == MainSpecInit /\ [][MainNext]_vars

\* The three threads are scheduled, the device delivers or reports its loss,
\* and ALSA keeps waking the audio thread
MainFairSpec ==
    MainSpec /\ WF_vars(MainThread) /\ WF_vars(AlsaThread) /\ WF_vars(WorkerNext)

\* ------------------------------------------------------------------------
\* MSD: decimation of one input by the three down samplers
\* ------------------------------------------------------------------------

\* The lists of stage factors the MSDs are built with
RECURSIVE StageLists(_)
StageLists(n) ==
    IF n = 0 THEN {<< >>}
    ELSE {Append(ms, m) : ms \in StageLists(n - 1), m \in 2..MaxM}

\* MSDs of 1..MaxStages stages; the translator holds 1..MaxSets times the m of
\* the first stage samples, as the constructor of the stage asserts
MsdInit ==
    /\ msd_m \in UNION {StageLists(n) : n \in 1..MaxStages}
    /\ msd_k \in {msd_m[1] * sets : sets \in 1..MaxSets}
    /\ msd = Msds(msd_k, msd_m)
    /\ msd_fed = 0
    /\ msd_in_len = 0
    /\ msd_out = [ft |-> << >>, tr |-> << >>, by |-> << >>]

\* The next in_len samples of the input
Input(from, in_len) == [n \in 1..in_len |-> In(from + n - 1)]

\* The same samples, each multiplied by the translator sample of its index
Translated(from, in_len, K) ==
    [n \in 1..in_len |-> Mix(In(from + n - 1), (from + n - 1) % K)]

\* decimate(in, in_len, out) on each MSD. The translating MSDs get the input,
\* the MSD without translator gets the input multiplied by the translator
Msd_Decimate ==
    /\ \E in_len \in 1..(MaxIn - (msd_fed + msd_in_len)) :
         LET from == msd_fed + msd_in_len
             ft == Decimate(msd.ft, Input(from, in_len), << >>)
             tr == Decimate(msd.tr, Input(from, in_len), << >>)
             by == Decimate(msd.by, Translated(from, in_len, msd_k), << >>)
         IN  /\ msd' = [ft |-> ft.msd, tr |-> tr.msd, by |-> by.msd]
             /\ msd_out' = [ft |-> ft.out, tr |-> tr.out, by |-> by.out]
             /\ msd_fed' = from
             /\ msd_in_len' = in_len
    /\ UNCHANGED << msd_m, msd_k >>
    /\ UNCHANGED notmsd

MsdNext == Msd_Decimate

MsdSpecInit ==
    DevConstructed /\ CrbConstructed /\ BlkConstructed /\ MainConstructed
    /\ MsdInit /\ AudConstructed /\ SetConstructed /\ GainConstructed
    /\ DsConstructed

MsdSpec == MsdSpecInit /\ [][MsdNext]_vars

\* ------------------------------------------------------------------------
\* The audio period processor: one call of alsa_write_cb per period
\* ------------------------------------------------------------------------

\* 1..MaxChannels channels as main constructs them
AudInit ==
    /\ channels \in UNION {[1..n -> {Channel}] : n \in 1..MaxChannels}
    /\ sql_wait = 0
    /\ aud_env = [c \in DOMAIN channels |-> "none"]
    /\ aud_mixed = [c \in DOMAIN channels |-> FALSE]
    /\ aud_proc = [c \in DOMAIN channels |-> "SQL_CLOSED"]
    /\ aud_before = [c \in DOMAIN channels |-> "SQL_CLOSED"]
    /\ status_line = FALSE
    /\ since_line = 0
    /\ lines = 0
    /\ periods = 0

\* a channel loop that leaves sql_state_prev as it is
ProcessChannel_KeepPrev(ch, over) ==
    [env |-> IF ch.sql_state = "SQL_OPEN"
             THEN (IF ch.sql_state_prev = "SQL_CLOSED" THEN "up" ELSE "none")
             ELSE (IF ch.sql_state_prev = "SQL_OPEN" THEN "down" ELSE "none"),
     mixed |-> (ch.sql_state = "SQL_OPEN" \/ ch.sql_state_prev = "SQL_OPEN"),
     ch |-> [sql_state |-> IF over THEN "SQL_OPEN" ELSE "SQL_CLOSED",
             sql_state_prev |-> ch.sql_state_prev]]

\* The body of the loop over the channels for one channel: the envelope its
\* 512 samples are multiplied with, whether they are added to
\* audio_buffer_float, and the channel after the squelch decision (over: the
\* SNR of the period is above sql_level)
ProcessChannel(ch, over) ==
    [env |-> IF ch.sql_state = "SQL_OPEN"
             THEN (IF ch.sql_state_prev = "SQL_CLOSED" THEN "up" ELSE "none")
             ELSE (IF ch.sql_state_prev = "SQL_OPEN" THEN "down" ELSE "none"),
     mixed |-> (ch.sql_state = "SQL_OPEN" \/ ch.sql_state_prev = "SQL_OPEN"),
     ch |-> [sql_state |-> IF over THEN "SQL_OPEN" ELSE "SQL_CLOSED",
             sql_state_prev |-> ch.sql_state]]

\* alsa_write_cb when acquireRead returns true: the status line is begun if
\* sql_wait >= 10, every channel is processed, the chunk is committed and
\* sql_wait is advanced
Aud_Period ==
    /\ periods < MaxPeriods
    /\ \E over \in [DOMAIN channels -> BOOLEAN] :
         /\ channels' = [c \in DOMAIN channels |-> ProcessChannel(channels[c], over[c]).ch]
         /\ aud_env' = [c \in DOMAIN channels |-> ProcessChannel(channels[c], over[c]).env]
         /\ aud_mixed' = [c \in DOMAIN channels |-> ProcessChannel(channels[c], over[c]).mixed]
    /\ aud_proc' = [c \in DOMAIN channels |-> channels[c].sql_state]
    /\ aud_before' = aud_proc
    /\ status_line' = (sql_wait >= 10)
    /\ sql_wait' = (IF sql_wait + 1 > 10 THEN 0 ELSE sql_wait + 1)
    /\ since_line' = (IF status_line THEN 1 ELSE since_line + 1)
    /\ lines' = (IF sql_wait >= 10 THEN lines + 1 ELSE lines)
    /\ periods' = periods + 1
    /\ UNCHANGED notaud

\* alsa_write_cb when acquireRead returns false: silence is written, no
\* channel is touched and nothing is printed on the status line
Aud_Underrun ==
    /\ periods < MaxPeriods
    /\ periods' = periods + 1
    /\ aud_env' = [c \in DOMAIN channels |-> "none"]
    /\ aud_mixed' = [c \in DOMAIN channels |-> FALSE]
    /\ UNCHANGED << channels, sql_wait, aud_proc, aud_before, status_line, since_line, lines >>
    /\ UNCHANGED notaud

AudNext ==
    \/ Aud_Period
    \/ Aud_Underrun

AudSpecInit ==
    DevConstructed /\ CrbConstructed /\ BlkConstructed /\ MainConstructed
    /\ MsdConstructed /\ AudInit /\ SetConstructed /\ GainConstructed
    /\ DsConstructed

AudSpec == AudSpecInit /\ [][AudNext]_vars

\* ------------------------------------------------------------------------
\* Startup of the program: main from parse_cmd_line to the channel setup
\* ------------------------------------------------------------------------

\* sample_rate_to_uint of the SampleRate values
Rates == {960000, 1200000, 1440000, 1600000, 1920000, 2400000, 2500000, 2560000,
          3000000, 6000000, 10000000}

\* Channel names of the command lines; the last one is no channel
Names ==
    << Name(118, 105), Name(118, 305), Name(118, 0), Name(118, 765), Name(119, 0),
       Name(118, 100), Name(117, 905), Name(119, 150), Name(118, 20) >>

\* The channel arguments: up to MaxArgs of the names in any order, or the
\* first 3..MaxList of them
ArgLists ==
    UNION {[1..n -> {Names[i] : i \in DOMAIN Names}] : n \in 1..MaxArgs}
    \cup {SubSeq(Names, 1, n) : n \in 3..MaxList}

SetInit ==
    /\ argv_channels \in ArgLists
    /\ settings_rate \in Rates
    /\ settings_channels = << >>
    /\ tuner_fq = 0
    /\ spc = "s_parse"
    /\ bw_ok = FALSE
    /\ ch_offset = << >>
    /\ ch_pos = << >>
    /\ stages_m = << >>
    /\ ch_isn = << >>
    /\ ch_out_len = << >>
    /\ blocks_in = 0

\* a table whose last stage for 1.44 MS/s has m = 4
StageTable_LastStageFour(rate) ==
    CASE rate = 960000   -> << 3, 4, 5 >>
      [] rate = 1200000  -> << 3, 5, 5 >>
      [] rate = 1440000  -> << 3, 6, 4 >>
      [] rate = 1600000  -> << 4, 5, 5 >>
      [] rate = 1920000  -> << 4, 6, 5 >>
      [] rate = 2400000  -> << 2, 3, 5, 5 >>
      [] rate = 2560000  -> << 4, 4, 5, 2 >>
      [] rate = 6000000  -> << 3, 5, 5, 5 >>
      [] rate = 10000000 -> << 5, 5, 5, 5 >>
      [] OTHER           -> << >>

\* The switch of main over settings.rate: the m of the stages of the rate;
\* 2.5 MS/s and 3 MS/s have no stages
StageTable(rate) ==
    CASE rate = 960000   -> << 3, 4, 5 >>
      [] rate = 1200000  -> << 3, 5, 5 >>
      [] rate = 1440000  -> << 3, 6, 5 >>
      [] rate = 1600000  -> << 4, 5, 5 >>
      [] rate = 1920000  -> << 4, 6, 5 >>
      [] rate = 2400000  -> << 2, 3, 5, 5 >>
      [] rate = 2560000  -> << 4, 4, 5, 2 >>
      [] rate = 6000000  -> << 3, 5, 5, 5 >>
      [] rate = 10000000 -> << 5, 5, 5, 5 >>
      [] OTHER           -> << >>

\* n calls of addSample on a stage with factor m whose isn_ is isn: the
\* number of calls that returned true and the isn_ left
StageCount(m, isn, n) ==
    IF n < isn
    THEN [out |-> 0, isn |-> isn - n]
    ELSE [out |-> 1 + (n - isn) \div m, isn |-> m - ((n - isn) % m)]

\* decimate(in, in_len, out) as far as the number of samples goes: a stage
\* is given a sample for every true of the stage before it, out_len counts
\* the trues of the last stage
RECURSIVE DecimateCount(_, _, _)
DecimateCount(ms, isns, in_len) ==
    IF ms = << >>
    THEN [out_len |-> in_len, isn |-> << >>]
    ELSE LET s == StageCount(Head(ms), Head(isns), in_len)
             rest == DecimateCount(Tail(ms), Tail(isns), s.out)
         IN  [out_len |-> rest.out_len, isn |-> << s.isn >> \o rest.isn]

\* The samples of one data event of the device for the rate
BlockLen(rate) ==
    IF rate \in RtlRates THEN RtlIqBuffSize(rate) \div 2 ELSE AirspyBlockSize(rate)

\* ret = parse_cmd_line(argc, argv, settings): the channels are collected,
\* tuner_fq is set if there is a channel; main returns 1 if ret < 0
Main_ParseCmdLine ==
    /\ spc = "s_parse"
    /\ LET r == ParseArgs(argv_channels, << >>, FALSE)
       IN  /\ settings_channels' = r.channels
           /\ tuner_fq' = (IF r.channels # << >> THEN MidFqRounded(r.channels) ELSE tuner_fq)
           /\ spc' = (IF r.bad THEN "s_error" ELSE "s_verify")
    /\ UNCHANGED << argv_channels, settings_rate, bw_ok, ch_offset, ch_pos >>
    /\ UNCHANGED << stages_m, ch_isn, ch_out_len, blocks_in >>
    /\ UNCHANGED notset

\* if (!verify_requested_bandwidth(settings)) return 1
Main_VerifyBandwidth ==
    /\ spc = "s_verify"
    /\ bw_ok' = VerifyRequestedBandwidth(settings_channels, settings_rate)
    /\ spc' = (IF bw_ok' THEN "s_stages" ELSE "s_error")
    /\ UNCHANGED << argv_channels, settings_rate, settings_channels, tuner_fq,
                    ch_offset, ch_pos >>
    /\ UNCHANGED << stages_m, ch_isn, ch_out_len, blocks_in >>
    /\ UNCHANGED notset

\* The switch of main over settings.rate and the test that follows it:
\* main returns 1 if the rate has no stages
Main_SelectStages ==
    /\ spc = "s_stages"
    /\ stages_m' = StageTable(settings_rate)
    /\ spc' = (IF stages_m' = << >> THEN "s_error" ELSE "s_setup")
    /\ UNCHANGED << argv_channels, settings_rate, settings_channels, tuner_fq, bw_ok,
                    ch_offset, ch_pos, ch_isn, ch_out_len, blocks_in >>
    /\ UNCHANGED notset

\* The loop of main over settings.channels: ch_offset and ch.pos of each, and
\* the MSD of each, built from the stages
Main_SetupChannels ==
    /\ spc = "s_setup"
    /\ ch_offset' = [i \in DOMAIN settings_channels |->
                       ChannelToOffset(settings_channels[i], tuner_fq)]
    /\ ch_pos' = [i \in DOMAIN settings_channels |->
                    GetAudioPos(i - 1, Len(settings_channels))]
    /\ ch_isn' = [i \in DOMAIN settings_channels |-> stages_m]
    /\ ch_out_len' = [i \in DOMAIN settings_channels |-> 0]
    /\ spc' = "s_ready"
    /\ UNCHANGED << argv_channels, settings_rate, settings_channels, tuner_fq, bw_ok >>
    /\ UNCHANGED << stages_m, blocks_in >>
    /\ UNCHANGED notset

\* data_cb for a block of the device: every channel's MSD decimates the
\* block into its region of the chunk
DataCb_Channelize ==
    /\ spc = "s_ready"
    /\ blocks_in < MaxBlocks
    /\ LET r == [i \in DOMAIN settings_channels |->
                  DecimateCount(stages_m, ch_isn[i], BlockLen(settings_rate))]
       IN  /\ ch_isn' = [i \in DOMAIN settings_channels |-> r[i].isn]
           /\ ch_out_len' = [i \in DOMAIN settings_channels |-> r[i].out_len]
    /\ blocks_in' = blocks_in + 1
    /\ UNCHANGED << argv_channels, settings_rate, settings_channels, tuner_fq, spc, bw_ok,
                    ch_offset, ch_pos, stages_m >>
    /\ UNCHANGED notset

SetNext ==
    \/ Main_ParseCmdLine
    \/ Main_VerifyBandwidth
    \/ Main_SelectStages
    \/ Main_SetupChannels
    \/ DataCb_Channelize

SetSpecInit ==
    DevConstructed /\ CrbConstructed /\ BlkConstructed /\ MainConstructed
    /\ MsdConstructed /\ AudConstructed /\ SetInit /\ GainConstructed
    /\ DsConstructed

SetSpec == SetSpecInit /\ [][SetNext]_vars

\* ------------------------------------------------------------------------
\* Device manager: calls of setGain
\* ------------------------------------------------------------------------

\* The gains setGain is called with: every tenth of a dB from just below
\* MIN_GAIN to just above MAX_GAIN
GainInputs == (Tenths(MIN_GAIN) - 1)..(Tenths(MAX_GAIN) + 1)

\* setGain(gain). An invalid gain changes nothing; else the indices are
\* stored and given to the device if it is open and running, where the call
\* of the vendor library can fail
SetGain ==
    \E gain \in GainInputs :
       /\ gain_arg' = gain
       /\ IF gain < Tenths(MIN_GAIN) \/ gain > Tenths(MAX_GAIN)
          THEN /\ gain_ret' = "INVALID_GAIN"
               /\ UNCHANGED << gain_, lna_gain_idx_, mix_gain_idx_, vga_gain_idx_ >>
          ELSE LET r == GainLoop(0, 0, 0, 0, gain)
               IN  /\ gain_' = gain
                   /\ lna_gain_idx_' = r.lna
                   /\ mix_gain_idx_' = r.mix
                   /\ vga_gain_idx_' = 12
                   /\ gain_ret' \in {"OK", "ERROR"}
       /\ UNCHANGED notgain

GainNext == SetGain

GainSpecInit ==
    DevConstructed /\ CrbConstructed /\ BlkConstructed /\ MainConstructed
    /\ MsdConstructed /\ AudConstructed /\ SetConstructed /\ GainConstructed
    /\ DsConstructed

GainSpec == GainSpecInit /\ [][GainNext]_vars

\* ------------------------------------------------------------------------
\* DS: the down sampler with its own thread (src/src/ds.hpp)
\* ------------------------------------------------------------------------

\* addJob: std::unique_lock<std::mutex> lock(mutex_)
DS_AddJob_Lock ==
    /\ dopc = "o_idle"
    /\ jobs < MaxJobs
    /\ mutex_ = "free"
    /\ mutex_' = "owner"
    /\ jobs' = jobs + 1
    /\ dopc' = "aj_set"
    /\ UNCHANGED << ds_run_, in_data_ptr_, latch_, dwpc, decimated, counted, dropped >>
    /\ UNCHANGED notds

\* addJob: the four members are assigned the job, whatever in_data_ptr_
\* holds, and the lock is released
DS_AddJob_Set ==
    /\ dopc = "aj_set"
    /\ in_data_ptr_' = jobs
    /\ latch_' = jobs
    /\ dropped' = (IF in_data_ptr_ # 0 THEN dropped \cup {in_data_ptr_} ELSE dropped)
    /\ mutex_' = "free"
    /\ dopc' = "aj_notify"
    /\ UNCHANGED << ds_run_, dwpc, jobs, decimated, counted >>
    /\ UNCHANGED notds

\* condition_.notify_one() of addJob: the worker is woken if it waits, and
\* nothing is kept of the call if it does not
DS_AddJob_Notify ==
    /\ dopc = "aj_notify"
    /\ dwpc' = (IF dwpc = "w_blocked" THEN "w_notified" ELSE dwpc)
    /\ dopc' = "o_idle"
    /\ UNCHANGED << ds_run_, in_data_ptr_, latch_, mutex_, jobs, decimated, counted, dropped >>
    /\ UNCHANGED notds

\* ~DS: std::unique_lock<std::mutex> lock(mutex_)
DS_Dtor_Lock ==
    /\ dopc = "o_idle"
    /\ mutex_ = "free"
    /\ mutex_' = "owner"
    /\ dopc' = "d_set"
    /\ UNCHANGED << ds_run_, in_data_ptr_, latch_, dwpc, jobs, decimated, counted, dropped >>
    /\ UNCHANGED notds

\* ~DS: run_ = false; lock.unlock()
DS_Dtor_Set ==
    /\ dopc = "d_set"
    /\ ds_run_' = FALSE
    /\ dropped' = (IF in_data_ptr_ # 0 THEN dropped \cup {in_data_ptr_} ELSE dropped)
    /\ mutex_' = "free"
    /\ dopc' = "d_notify"
    /\ UNCHANGED << in_data_ptr_, latch_, dwpc, jobs, decimated, counted >>
    /\ UNCHANGED notds

\* ~DS: condition_.notify_one()
DS_Dtor_Notify ==
    /\ dopc = "d_notify"
    /\ dwpc' = (IF dwpc = "w_blocked" THEN "w_notified" ELSE dwpc)
    /\ dopc' = "d_join"
    /\ UNCHANGED << ds_run_, in_data_ptr_, latch_, mutex_, jobs, decimated, counted, dropped >>
    /\ UNCHANGED notds

\* ~DS: thread_.join() returns when worker_ has returned
DS_Dtor_Join ==
    /\ dopc = "d_join"
    /\ dwpc = "w_exit"
    /\ dopc' = "d_done"
    /\ UNCHANGED << ds_run_, in_data_ptr_, latch_, mutex_, dwpc, jobs, decimated, counted, dropped >>
    /\ UNCHANGED notds

\* worker_ takes mutex_: at its first statement, and inside condition_.wait
\* after it was woken
DS_worker_Lock ==
    /\ dwpc \in {"w_new", "w_notified"}
    /\ mutex_ = "free"
    /\ mutex_' = "worker"
    /\ dwpc' = "w_while"
    /\ UNCHANGED << ds_run_, in_data_ptr_, latch_, dopc, jobs, decimated, counted, dropped >>
    /\ UNCHANGED notds

\* while (run_): worker_ returns, releasing the lock, when run_ is false
DS_worker_While ==
    /\ dwpc = "w_while"
    /\ IF ds_run_
       THEN dwpc' = "w_if" /\ mutex_' = mutex_
       ELSE dwpc' = "w_exit" /\ mutex_' = "free"
    /\ UNCHANGED << ds_run_, in_data_ptr_, latch_, dopc, jobs, decimated, counted, dropped >>
    /\ UNCHANGED notds

\* if (in_data_ptr_) { msd_.decimate(...); in_data_ptr_ = nullptr;
\* latch_->count_down(); latch_ = nullptr; }
DS_worker_Job ==
    /\ dwpc = "w_if"
    /\ IF in_data_ptr_ # 0
       THEN /\ decimated' = [decimated EXCEPT ![in_data_ptr_] = @ + 1]
            /\ in_data_ptr_' = 0
            /\ counted' = [counted EXCEPT ![latch_] = @ + 1]
            /\ latch_' = 0
       ELSE UNCHANGED << in_data_ptr_, latch_, decimated, counted >>
    /\ dwpc' = "w_wait"
    /\ UNCHANGED << ds_run_, mutex_, dopc, jobs, dropped >>
    /\ UNCHANGED notds

\* condition_.wait(lock): the lock is released and the thread blocks, in one
\* step
DS_worker_Wait ==
    /\ dwpc = "w_wait"
    /\ mutex_' = "free"
    /\ dwpc' = "w_blocked"
    /\ UNCHANGED << ds_run_, in_data_ptr_, latch_, dopc, jobs, decimated, counted, dropped >>
    /\ UNCHANGED notds

\* condition_.wait may return without a notify_one (spurious wakeup)
DS_worker_Spurious ==
    /\ dwpc = "w_blocked"
    /\ dwpc' = "w_notified"
    /\ UNCHANGED << ds_run_, in_data_ptr_, latch_, mutex_, dopc, jobs, decimated, counted, dropped >>
    /\ UNCHANGED notds

DsNext ==
    \/ DS_AddJob_Lock
    \/ DS_AddJob_Set
    \/ DS_AddJob_Notify
    \/ DS_Dtor_Lock
    \/ DS_Dtor_Set
    \/ DS_Dtor_Notify
    \/ DS_Dtor_Join
    \/ DS_worker_Lock
    \/ DS_worker_While
    \/ DS_worker_Job
    \/ DS_worker_Wait
    \/ DS_worker_Spurious

\* A DS just constructed; every other part of the program as constructed
DsSpecInit ==
    DevConstructed /\ CrbConstructed /\ BlkConstructed /\ MainConstructed
    /\ DspConstructed /\ DsConstructed

DsSpec == DsSpecInit /\ [][DsNext]_vars

\* ------------------------------------------------------------------------
\* Properties of the CRB
\* ------------------------------------------------------------------------

\* The writer holds a slot: acquireWrite returned true, commitWrite has not
\* yet stored write_ptr_
WriterHolds ==
    \/ wpc = "aw_ret" /\ aw_ok
    \/ wpc \in {"w_meta", "cw_end", "cw_store"}

\* The reader holds a slot: acquireRead returned true, commitRead has not
\* yet stored read_ptr_
ReaderHolds ==
    \/ rpc = "ar_ret" /\ ar_ok
    \/ rpc \in {"r_buf", "cr"}

\* C1: the chunks the reader obtained are the chunks the writer committed, in
\* commit order, none skipped, repeated or reordered: the sequence read is a
\* prefix of the sequence committed, and the k-th committed chunk is the k-th
\* block the writer produced.
C1_Fifo ==
    /\ Len(obtained) <= Len(committed)
    /\ \A i \in 1..Len(committed) : committed[i].buf = i /\ committed[i].m = i
    /\ \A i \in 1..Len(obtained) :
          /\ obtained[i].buf = committed[i].buf
          /\ obtained[i].m = committed[i].m

\* C1 witness: the reader has obtained chunks across two wrap-arounds of the ring
C1_Witness ==
    /\ num_chunks >= 2
    /\ Len(obtained) >= 2 * num_chunks

\* C2: the slot the writer holds (acquired, not committed) differs from the
\* slot the reader holds (acquired, not released).
C2_NoOverlap ==
    (WriterHolds /\ ReaderHolds) => acquired_write_ptr_ # acquired_read_ptr_

\* C2 witness: both sides hold a slot while the ring is in state 2
C2_Witness ==
    /\ WriterHolds
    /\ ReaderHolds
    /\ write_ptr_ < read_ptr_

\* C3: the chunk the reader holds has the payload and metadata stored before
\* the matching commitWrite, what the reader copies out is that content, and
\* the writer is never given a slot that is committed and not yet released.
C3_NoTear ==
    /\ ReaderHolds =>
          /\ Len(obtained) < Len(committed)
          /\ committed[Len(obtained) + 1].slot = acquired_read_ptr_
          /\ chunks_[acquired_read_ptr_].buf = committed[Len(obtained) + 1].buf
          /\ chunks_[acquired_read_ptr_].m = committed[Len(obtained) + 1].m
    /\ rpc = "cr" =>
          /\ got.buf = committed[Len(obtained) + 1].buf
          /\ got.m = committed[Len(obtained) + 1].m
    /\ WriterHolds =>
          \A i \in (Len(obtained) + 1)..Len(committed) :
              committed[i].slot # acquired_write_ptr_

\* C3 witness: after a wrap-around the reader has copied a chunk out while the
\* writer is filling another slot
C3_Witness ==
    /\ rpc = "cr"
    /\ wpc = "w_meta"
    /\ Len(obtained) >= num_chunks

\* C4 (as claimed): in a CRB with num_chunks = 3 whose three slots have been
\* filled, an acquireWrite that starts after the reader has committed a read
\* returns true.
C4_WriteAfterOneRead ==
    (num_chunks = 3 /\ wpc = "aw_ret" /\ Len(committed) = 3 /\ aw_reads >= 1) => aw_ok

\* C5: from a new CRB and with no commitRead, acquireWrite returns true while
\* fewer than num_chunks chunks are committed and false once num_chunks are.
C5_FillFromNew ==
    (wpc = "aw_ret" /\ aw_reads = 0) => (aw_ok <=> Len(committed) < num_chunks)

\* C5 witness: the spec scenario, the 4th acquireWrite on a CRB of 3 chunks fails
C5_Witness ==
    /\ num_chunks = 3
    /\ wpc = "aw_ret"
    /\ aw_reads = 0
    /\ Len(committed) = 3
    /\ ~aw_ok

\* C6 (as claimed): acquireWrite returns false exactly when num_chunks
\* committed chunks are waiting to be read; with fewer waiting it reserves a slot.
C6_FalseOnlyWhenFull ==
    wpc = "aw_ret" => (aw_ok <=> aw_waiting < num_chunks)

\* C7: acquireRead returns false exactly when no committed chunk is unread,
\* in state 1 and in state 2.
C7_FalseIffEmpty ==
    rpc = "ar_ret" => (ar_ok <=> ar_waiting > 0)

\* C7 witness: acquireRead fails on a ring that was drained after a wrap-around
C7_Witness ==
    /\ rpc = "ar_ret"
    /\ ~ar_ok
    /\ ar_waiting = 0
    /\ Len(obtained) > num_chunks

\* acquireRead succeeded through the state 2 branch
C7_State2Reached ==
    /\ rpc = "ar_ret"
    /\ ar_ok
    /\ ar_wr_ptr < read_ptr_

\* ------------------------------------------------------------------------
\* Properties of the device manager
\* ------------------------------------------------------------------------

\* C8 (as claimed): when stop() has returned OK the worker thread has ended,
\* run_ is false and state_ is IDLE (the assertions of ~R820Dev hold).
C8_StopLeavesIdle ==
    (cpc = "c_idle" /\ last_call = "stop" /\ ret = "OK") =>
        (kpc = "w_done" /\ run_ = FALSE /\ state_ = "IDLE")

\* C9 (as claimed): RESTARTING is never followed directly by RUNNING.
C9_RestartingNeverRunning ==
    [][state_ = "RESTARTING" => state_' # "RUNNING"]_vars

\* C9 (amended): the retry after the backoff keeps the state RESTARTING until
\* the device is open again and then sets RUNNING; RESTARTING is never
\* followed by STARTING.
C9_RestartingNeverStarting ==
    [][state_ = "RESTARTING" => state_' \in {"RESTARTING", "RUNNING", "STOPPING", "IDLE"}]_vars

\* C9 witness: after a loss of streaming and the backoff the device has been
\* reopened and the worker is about to set RUNNING, the state still RESTARTING
C9_Witness ==
    /\ state_ = "RESTARTING"
    /\ run_
    /\ dev_ = "open"
    /\ kpc \in {"r_set_running", "a_set_running"}

\* C10: while run_ stays true and the device stays openable, the worker
\* reaches RUNNING, from wherever it is: after a failed open, after an end of
\* streaming, in a backoff.
C10_EventuallyRunning ==
    (run_ /\ dev_ok) ~> (state_ = "RUNNING" \/ ~run_ \/ ~dev_ok)

\* C10 witness: RUNNING reached in an iteration of the worker that follows a backoff
C10_Witness ==
    /\ state_ = "RUNNING"
    /\ retried
    /\ run_
    /\ dev_ok
    /\ kpc \in {"r_stream", "a_poll"}

\* C11: a valid setFq made while the manager is not RUNNING (it returned OK
\* leaving the value cached) is in force when the manager is next RUNNING: the
\* opened device is configured with the most recently set frequency, whatever
\* the interleaving of the call with the worker's open sequence.
C11_DeferredFqApplied ==
    (cpc = "c_idle" /\ fq_deferred /\ state_ = "RUNNING" /\ dev_ = "open")
        => dev_fq = fq_

\* C12: the streaming flag is true whenever the producer is delivering: once
\* data_cb has committed a block after the most recent IDLE notification and
\* returned, isStreaming() is true, in the first session and in every later one.
C12_StreamingWhileDelivering ==
    (wpc = "w_idle" /\ written_since_idle) => IsStreaming

\* C13: every data event emitted with stream_state STREAMING carries exactly
\* rate * 4 / 125 samples, for every supported rate and every sequence of
\* Airspy transfer sizes.
C13_BlockLength ==
    \A i \in 1..Len(emitted) :
        emitted[i].state = "STREAMING" => emitted[i].len * 125 = fs_ * 4

\* C13 witness: one Airspy callback that completed two blocks and left a
\* partial one, after an earlier transfer
C13_Witness ==
    /\ dev_type = "AIRSPY"
    /\ Len(emitted) >= 2
    /\ iq_pos_ > 0
    /\ transfers >= 2

\* C14: every emitted block is a contiguous run of the sample stream: all its
\* samples were received in one streaming session.
C14_BlockInOneSession ==
    \A i \in 1..Len(emitted) : emitted[i].first = emitted[i].last

\* C15: when data_cb finds the ring full (acquireWrite returns false) it
\* drops the block and returns without waiting: neither the failed
\* acquireWrite nor the return changes write_ptr_, end_ptr_ or any chunk, and
\* the next step of data_cb is its return.
C15_OverrunDrops ==
    [][ (\/ (wpc = "aw_calc" /\ wpc' = "aw_ret" /\ ~aw_ok')
         \/ (wpc = "aw_ret" /\ ~aw_ok /\ wpc' # wpc))
        => /\ write_ptr_' = write_ptr_
           /\ end_ptr_' = end_ptr_
           /\ chunks_' = chunks_
           /\ committed' = committed
           /\ (wpc = "aw_ret" => wpc' = "w_idle") ]_vars

\* C15 witness: data_cb has returned from an overrun with chunks waiting
C15_Witness ==
    /\ wpc = "w_idle"
    /\ ~aw_ok
    /\ Waiting >= 1
    /\ aw_waiting >= 1

\* C16: in an audio period in which acquireRead fails exactly one period of
\* silence and no audio is written, and the warning is logged if and only if
\* the streaming flag is set when the period asks for it.
C16_UnderrunSilence ==
    /\ [](rpc = "r_idle" /\ period.failed => period.silence = 1 /\ period.audio = 0)
    /\ [][ (rpc = "ar_ret" /\ ~ar_ok /\ rpc' # rpc)
           => (period'.failed /\ (period'.warned <=> streaming_)) ]_vars

\* C16 witness: a failed period that logged the warning and wrote its silence
C16_Witness ==
    /\ rpc = "r_idle"
    /\ period.failed
    /\ period.warned
    /\ period.silence = 1

\* C19: commitWrite (commitRead) called with no successful acquireWrite
\* (acquireRead) since the last commit returns false and leaves write_ptr_,
\* read_ptr_ and end_ptr_ unchanged.
C19_CommitWithoutAcquire ==
    [][ /\ (wpc \in {"cw_end", "cw_again"} /\ ~w_acq /\ wpc' # wpc)
           => (~cw_ok' /\ write_ptr_' = write_ptr_
               /\ read_ptr_' = read_ptr_ /\ end_ptr_' = end_ptr_)
        /\ (rpc \in {"cr", "cr_again"} /\ ~r_acq /\ rpc' # rpc)
           => (~cr_ok' /\ write_ptr_' = write_ptr_
               /\ read_ptr_' = read_ptr_ /\ end_ptr_' = end_ptr_) ]_vars

\* C19 witness: a second commitWrite and a second commitRead have returned
\* false after chunks were committed and read
C19_Witness ==
    /\ wpc = "w_idle" /\ ~cw_ok /\ Len(committed) >= 1
    /\ rpc = "r_idle" /\ ~cr_ok /\ Len(obtained) >= 1

\* C20: start() on a started manager returns ALREADY_STARTED and stop() on a
\* manager that is not started returns ALREADY_STOPPED; neither changes the
\* state, run_, the device handle or the worker thread.
C20_AlreadyStartedStopped ==
    [][ /\ (run_ /\ cpc = "c_idle" /\ last_call' = "start"
            /\ << last_call, ret >>' # << last_call, ret >>)
           => (ret' = "ALREADY_STARTED"
               /\ UNCHANGED << state_, run_, dev_, stream_state, kpc, cpc, starts >>)
        /\ (~run_ /\ cpc = "c_idle" /\ last_call' = "stop"
            /\ << last_call, ret >>' # << last_call, ret >>)
           => (ret' = "ALREADY_STOPPED"
               /\ UNCHANGED << state_, run_, dev_, stream_state, kpc, cpc, starts >>) ]_vars

\* C20 witness: a second start() has returned ALREADY_STARTED while the worker
\* streams
C20_Witness ==
    /\ last_call = "start"
    /\ ret = "ALREADY_STARTED"
    /\ state_ = "RUNNING"
    /\ kpc \in {"r_stream", "a_poll"}

\* C20 witness of the second half: stop() has returned ALREADY_STOPPED on a
\* manager that was started and stopped before
C20_StoppedTwice ==
    /\ last_call = "stop"
    /\ ret = "ALREADY_STOPPED"
    /\ starts >= 1

\* C17: after a termination signal has set run to false the program
\* eventually stops on its own: stop() has returned with the worker joined,
\* the audio thread has left its loop and is joined, and main has returned.
C17_StopsOnItsOwn ==
    (~run) ~> (mpc = "m_exited" /\ apc = "al_done" /\ kpc \in {"none", "w_done"})

\* C18: if device start() fails at startup the program terminates with exit
\* code 1.
C18_StartFailureExitsOne ==
    (mpc = "m_exited" /\ last_call = "start" /\ ret # "OK") => exit_code = "1"

\* ------------------------------------------------------------------------
\* Properties of the MSD
\* ------------------------------------------------------------------------

\* C21: for any in_len that is a multiple of the product of the stage
\* factors, decimate returns exactly in_len divided by that product output
\* samples, whatever the lengths of the earlier decimate calls on the same MSD
\* were.
C21_RateLaw ==
    msd_in_len % M(msd_m) = 0 =>
        \A o \in {"ft", "tr", "by"} : Len(msd_out[o]) = msd_in_len \div M(msd_m)

\* C21 witness: a call with a multiple of the product has written samples
\* although the calls before it left the counters of the stages in the middle
\* of their count
C21_Witness ==
    /\ msd_in_len > 0
    /\ msd_in_len % M(msd_m) = 0
    /\ msd_fed % M(msd_m) # 0
    /\ Len(msd_m) > 1
    /\ Len(msd_out.ft) = msd_in_len \div M(msd_m)

\* C22: an MSD built with the translator and use_ftfir = true produces the
\* same output as multiplying the input sample by sample with the translator
\* and decimating with the same stages without translation.
C22_FtfirEqualsPointwise == msd_out.ft = msd_out.by

\* The output of the frequency translating MSD is the output of the other
\* path with every term doubled and its translator sample moved back by
\* h.size() - m of the first stage
C22_DoubledAndShifted ==
    LET K == msd_k
        shift == HSize - msd_m[1]
    IN  msd_out.ft =
          [n \in 1..Len(msd_out.by) |->
             {[x EXCEPT !.g = 2 * x.g, !.t = (x.t + shift) % K] : x \in msd_out.by[n]}]

\* The MSD that multiplies by the translator itself writes what the MSD
\* without translator writes for the multiplied input
C22_TranslatorIsPointwise == msd_out.tr = msd_out.by

\* ------------------------------------------------------------------------
\* Properties of the audio period processor
\* ------------------------------------------------------------------------

\* C23: the first period a channel is processed as OPEN is multiplied by the
\* ramp-up envelope, the first period it is processed as CLOSED after OPEN
\* by the ramp-down envelope; no other period of the channel is multiplied by
\* an envelope, and a period processed as CLOSED after a CLOSED one adds
\* nothing to the output.
C23_RampOnEdgesOnly ==
    \A c \in DOMAIN channels :
       /\ aud_env[c] = "up"
            <=> (aud_mixed[c] /\ aud_proc[c] = "SQL_OPEN" /\ aud_before[c] = "SQL_CLOSED")
       /\ aud_env[c] = "down"
            <=> (aud_mixed[c] /\ aud_proc[c] = "SQL_CLOSED" /\ aud_before[c] = "SQL_OPEN")
       /\ (aud_proc[c] = "SQL_CLOSED" /\ aud_before[c] = "SQL_CLOSED") => ~aud_mixed[c]

\* C23 witness: a channel is ramped down while another one, open for more
\* than one period, is mixed without an envelope
C23_Witness ==
    /\ Len(channels) = 2
    /\ aud_env[1] = "down"
    /\ aud_mixed[1]
    /\ aud_env[2] = "none"
    /\ aud_mixed[2]

\* C28: the status line is printed once per 10 audio periods in which a
\* chunk was consumed: from one status line to the next exactly 10 chunks are
\* read from the ring.
C28_LineEveryTenChunks ==
    (status_line /\ lines >= 2) => since_line = 10

\* Every status line is printed in the 11th period with a chunk after the
\* period of the line before, the first one in the 11th period with a chunk
C28_LineEveryElevenChunks ==
    status_line => since_line = 11

\* ------------------------------------------------------------------------
\* Properties of the startup of the program
\* ------------------------------------------------------------------------

\* The pos values given to the channels
Positions == {ch_pos[i] : i \in DOMAIN ch_pos}

\* The frequencies of the channels of settings.channels
Frequencies == {ParseFq(settings_channels[i]) : i \in DOMAIN settings_channels}

\* Every channel argument is a channel in the range of the tuner
ArgsValid ==
    \A i \in DOMAIN argv_channels :
       ParseFq(argv_channels[i]) >= 45000000 /\ ParseFq(argv_channels[i]) <= 1800000000

\* C24 as stated: for every channel count M >= 1, the set of pos values that
\* get_audio_pos assigns to the channel indices 0..M-1 is a contiguous,
\* symmetric subset of -2..2.
C24_ContiguousSymmetric ==
    spc = "s_ready" =>
        /\ Positions \subseteq -2..2
        /\ \A p \in Positions : -p \in Positions
        /\ \A p, q \in Positions : \A x \in p..q : x \in Positions

\* C24: for every channel count M >= 1, the pos values that get_audio_pos
\* assigns to the channel indices 0..M-1 are a symmetric subset of -2..2:
\* index M-1-i gets the negative of the pos of index i, and for M >= 2 the
\* outermost channels get -2 and +2. The set is not contiguous in general.
C24_SymmetricPositions ==
    spc = "s_ready" =>
        /\ Positions \subseteq -2..2
        /\ \A i \in DOMAIN ch_pos : ch_pos[Len(ch_pos) + 1 - i] = -ch_pos[i]
        /\ Len(ch_pos) >= 2 => (ch_pos[1] = -2 /\ ch_pos[Len(ch_pos)] = 2)

\* C24 witness: four channels are given the positions -2, -1, 1, 2
C24_Witness ==
    /\ spc = "s_ready"
    /\ ch_pos = << -2, -1, 1, 2 >>

\* C25 as stated: with tuner 118.200 MHz the channels 118.105 and 118.305 give
\* the offsets -11 and +13, and with tuner 118.000 MHz channel 118.105 gives
\* +13.
C25_OffsetsAsStated ==
    spc = "s_ready" =>
        \A i \in DOMAIN settings_channels :
           /\ (tuner_fq = 118200000 /\ settings_channels[i] = Name(118, 105))
                => ch_offset[i] = -11
           /\ (tuner_fq = 118200000 /\ settings_channels[i] = Name(118, 305))
                => ch_offset[i] = 13
           /\ (tuner_fq = 118000000 /\ settings_channels[i] = Name(118, 105))
                => ch_offset[i] = 13

\* C25: channel_to_offset returns the channel's distance from the tuner
\* centre in steps of 8.33 kHz (25/3 kHz): with tuner 118.200 MHz the
\* channels 118.105 and 118.305 give -12 and +12, and with tuner 118.000 MHz
\* channel 118.105 gives +12.
C25_OffsetInSteps ==
    spc = "s_ready" =>
        \A i \in DOMAIN settings_channels :
           /\ 25000 * ch_offset[i] - 3 * (ParseFq(settings_channels[i]) - tuner_fq)
                \in -1..1
           /\ (tuner_fq = 118200000 /\ settings_channels[i] = Name(118, 105))
                => ch_offset[i] = -12
           /\ (tuner_fq = 118200000 /\ settings_channels[i] = Name(118, 305))
                => ch_offset[i] = 12
           /\ (tuner_fq = 118000000 /\ settings_channels[i] = Name(118, 105))
                => ch_offset[i] = 12

\* C25 witness: the channels 118.105 and 118.305 are set up with the tuner at
\* 118.200 MHz
C25_Witness ==
    /\ spc = "s_ready"
    /\ tuner_fq = 118200000
    /\ settings_channels = << Name(118, 105), Name(118, 305) >>
    /\ ch_offset = << -12, 12 >>

\* The channel 118.105 is set up with the tuner at 118.000 MHz
C25_WitnessTuner118 ==
    /\ spc = "s_ready"
    /\ tuner_fq = 118000000
    /\ \E i \in DOMAIN settings_channels :
          settings_channels[i] = Name(118, 105) /\ ch_offset[i] = 12

\* The command line names the channels 118.100 and 119.000, in either order
C26_CmdLine ==
    argv_channels \in {<< Name(118, 100), Name(119, 0) >>,
                       << Name(119, 0), Name(118, 100) >>}

\* C26 as stated: with rate 1.44 MS/s and the channels 118.100 and 119.000
\* the bandwidth check fails and startup ends with an error.
C26_CheckFails ==
    (/\ settings_rate = 1440000
     /\ C26_CmdLine
     /\ spc \notin {"s_parse", "s_verify"})
    => (~bw_ok /\ spc = "s_error")

\* C26: with rate 1.44 MS/s and the channels 118.100 and 119.000 the tuner
\* centre is 118.500 MHz, both channels lie within 576 kHz of it, the
\* bandwidth check passes and startup goes on.
C26_CheckPasses ==
    (/\ settings_rate = 1440000
     /\ C26_CmdLine
     /\ spc \notin {"s_parse", "s_verify"})
    => (bw_ok /\ spc # "s_error" /\ tuner_fq = 118500000)

\* C26 witness: the channels of that command line are set up
C26_Witness ==
    /\ settings_rate = 1440000
    /\ C26_CmdLine
    /\ spc = "s_ready"

\* C27: every set of valid channels whose lowest and highest frequency lie
\* no more than 80 % of the sample rate apart is accepted by
\* verify_requested_bandwidth.
C27_FittingChannelsAccepted ==
    (/\ spc \in {"s_setup", "s_ready", "s_error"}
     /\ ArgsValid
     /\ \A f, g \in Frequencies : g - f <= (settings_rate * 8) \div 10)
    => bw_ok

\* ------------------------------------------------------------------------
\* Properties of the composite gain
\* ------------------------------------------------------------------------

\* The gain the stored LNA and MIX indices add up to, in tenths of a dB
AccumulatedGain ==
    StepSum(lna_gain_steps, lna_gain_idx_) + StepSum(mix_gain_steps, mix_gain_idx_)

\* C29: for every composite gain g in [0, 50] dB, the indices setGain chooses
\* have an accumulated gain of at least g, both are at most 15, and the VGA
\* index is 12.
C29_GainReached ==
    (gain_arg >= Tenths(MIN_GAIN) /\ gain_arg <= Tenths(MAX_GAIN)) =>
        /\ AccumulatedGain >= gain_arg
        /\ lna_gain_idx_ <= 15
        /\ mix_gain_idx_ <= 15
        /\ vga_gain_idx_ = 12

\* What setGain does: the indices are at most 15 and the VGA index is 12; a
\* gain of up to 49.6 dB is reached; for a gain above 49.6 dB both indices are
\* 15, which add up to 48.8 dB
C29_GainReachedUpTo496 ==
    (gain_arg >= Tenths(MIN_GAIN) /\ gain_arg <= Tenths(MAX_GAIN)) =>
        /\ lna_gain_idx_ <= 15
        /\ mix_gain_idx_ <= 15
        /\ vga_gain_idx_ = 12
        /\ gain_arg <= 496 => AccumulatedGain >= gain_arg
        /\ gain_arg > 496 =>
             (lna_gain_idx_ = 15 /\ mix_gain_idx_ = 15 /\ AccumulatedGain = 488)

\* ------------------------------------------------------------------------
\* Properties of the CRB: the two states of the ring
\* ------------------------------------------------------------------------

\* State 1 (write leads read) and state 2 (read leads write) of the ring
InState1 == write_ptr_ >= read_ptr_
InState2 == write_ptr_ < read_ptr_

\* C30: only a commitWrite changes the ring from state 1 (write_ptr >=
\* read_ptr) to state 2 (write_ptr < read_ptr), and only a commitRead changes
\* it from state 2 to state 1, under every interleaving of the two threads.
C30_OnlyCommitsChangeState ==
    [][ /\ (InState1 /\ InState2')
           => (wpc = "cw_store" /\ write_ptr_' # write_ptr_ /\ read_ptr_' = read_ptr_)
        /\ (InState2 /\ InState1')
           => (rpc \in {"cr", "cr_again"} /\ read_ptr_' # read_ptr_ /\ write_ptr_' = write_ptr_) ]_vars

\* C30 witness: the ring is in state 1 again after the writer and then the
\* reader have wrapped around
C30_Witness ==
    /\ InState1
    /\ Len(committed) > num_chunks
    /\ Len(obtained) > num_chunks
    /\ num_chunks > 1

\* ------------------------------------------------------------------------
\* Properties of the CRB: the end pointer
\* ------------------------------------------------------------------------

\* The commits that wrapped: the writes to slot 0 after the first
Wraps == {i \in 2..Len(committed) : committed[i].slot = 0}

\* The high-water mark of the most recent wrap: one past the slot written
\* last before the writer went back to slot 0
HighWaterMark ==
    LET i == CHOOSE j \in Wraps : \A k \in Wraps : k <= j
    IN  committed[i - 1].slot + 1

\* C31: whenever acquireRead reads end_ptr_ in state 2, it reads the
\* high-water mark of the most recent wrap, which is num_chunks, whatever
\* commitWrite has rewritten since.
C31_EndPtrNeverStale ==
    rpc = "ar_end" => (/\ Wraps # {}
                       /\ end_ptr_ = HighWaterMark
                       /\ end_ptr_ = num_chunks)

\* C31 witness: acquireRead is about to read end_ptr_ in state 2 while the
\* writer has rewritten it in a commitWrite made after the wrap and is about
\* to store write_ptr_
C31_Witness ==
    /\ rpc = "ar_end"
    /\ wpc = "cw_store"
    /\ acquired_write_ptr_ > 0
    /\ write_ptr_ < read_ptr_

\* C32: whenever the ring is empty (every committed chunk has been read)
\* acquireWrite succeeds, for every num_chunks >= 1.
C32_EmptyRingAccepts ==
    (wpc = "aw_ret" /\ aw_waiting = 0) => aw_ok

\* The same for the rings of two and more chunks
C32_EmptyRingAcceptsFromTwo ==
    (wpc = "aw_ret" /\ aw_waiting = 0 /\ num_chunks >= 2) => aw_ok

\* A ring of one chunk whose one chunk has been written and read refuses
\* every acquireWrite: its pointers stay at 1 and it stays empty
C32_OneChunkRingStuck ==
    (num_chunks = 1 /\ Len(committed) = 1 /\ Len(obtained) = 1)
    => (/\ write_ptr_ = 1 /\ read_ptr_ = 1
        /\ (wpc = "aw_ret" => ~aw_ok)
        /\ wpc \in {"w_mark", "w_idle", "aw_calc", "aw_ret"})

\* ------------------------------------------------------------------------
\* Properties of the device manager: stopping
\* ------------------------------------------------------------------------

\* C33: once stop() has set the state to STOPPING, the state changes only to
\* IDLE until the next start() (which sets STARTING): the worker never
\* overwrites STOPPING with RUNNING or RESTARTING.
C33_StoppingOnlyToIdle ==
    [][state_ = "STOPPING" => state_' \in {"STOPPING", "IDLE", "STARTING"}]_vars

\* What does hold: a worker that stores RUNNING or RESTARTING over STOPPING
\* read run_ before stop() cleared it, and it stores IDLE before it ends
C33_OverwriteIsLate ==
    [][(state_ = "STOPPING" /\ state_' \in {"RUNNING", "RESTARTING"})
          => (~run_ /\ kpc \in {"r_set_running", "a_set_running",
                                "r_set_restarting", "a_set_restarting"})]_vars

\* C34: setFq, called from the control thread while the worker runs, never
\* passes the vendor library a device handle that the worker has closed or
\* set to null: at the vendor call dev_ is an open device.
C34_HandleOpenAtVendorCall ==
    cpc = "fq_apply" => dev_ = "open"

\* What does hold: the handle was open and the state RUNNING when setFq
\* tested them; a handle that is closed at the vendor call was closed by a
\* worker that has left its streaming loop since
C34_ClosedByWorkerSince ==
    (cpc = "fq_apply" /\ dev_ # "open")
        => kpc \notin {"r_set_running", "r_stream", "r_close", "a_start_rx",
                       "a_set_running", "a_poll", "a_stop_rx", "a_chk_run",
                       "a_set_restarting", "a_close"}

\* ------------------------------------------------------------------------
\* Properties of the device manager: the data events of a session
\* ------------------------------------------------------------------------

\* The positions of the worker between the start of streaming and the
\* zero-length IDLE event
StreamingPcs == {"r_stream", "r_close", "a_set_running", "a_poll", "a_stop_rx"}

\* C35: each streaming session ends with exactly one zero-length data event
\* with stream_state IDLE, emitted after the last STREAMING block of the
\* session and before the first block of a later session: no block is
\* emitted outside a session or with another stream_state, no IDLE event is
\* emitted without a session to end, no session starts before the one before
\* got its IDLE event, and a session is open only while the worker streams.
C35_OneIdleEventPerSession ==
    /\ ~evlog.stray
    /\ ~evlog.extra
    /\ ~evlog.unended
    /\ evlog.open => kpc \in StreamingPcs

\* C35 witness: the second session has delivered blocks and has ended with
\* its IDLE event
C35_Witness ==
    /\ evlog.sessions = 2
    /\ evlog.blocks = 1
    /\ ~evlog.open
    /\ kpc = "w_done"

\* ------------------------------------------------------------------------
\* Properties of the block assembly: the double buffer
\* ------------------------------------------------------------------------

\* Number of positions the runs of a block cover
RECURSIVE Covered(_)
Covered(runs) ==
    IF runs = {} THEN 0
    ELSE LET r == CHOOSE q \in runs : TRUE
         IN  (r.hi - r.lo) + Covered(runs \ {r})

\* The block read at position lo holds the samples id, id + 1, ... in
\* order, one at every position
HoldsInOrder(b, lo, id) ==
    /\ \A r \in b : r.id - (r.lo - lo) = id
    /\ Covered(b) = block_size_

\* C36: the Airspy manager emits one block each time block_size_ samples
\* have accumulated, from the two halves of the double buffer in turn, and
\* the blocks concatenated are the samples received while run_ is true, in
\* order, none lost and none twice, whatever the sizes of the transfers.
C36_BlocksReproduceSamples ==
    dev_type = "AIRSPY" =>
        /\ nblocks = received \div block_size_
        /\ iq_pos_ = received % block_size_
        /\ part_pos_ = (IF nblocks % 2 = 0 THEN 0 ELSE block_size_)
        /\ \A k \in DOMAIN blocks :
              /\ blocks[k].no = nblocks - Len(blocks) + k
              /\ blocks[k].part = (IF blocks[k].no % 2 = 1 THEN 0 ELSE block_size_)
              /\ HoldsInOrder(blocks[k].data, blocks[k].part,
                              (blocks[k].no - 1) * block_size_ + 1)

\* C36 witness: a transfer that began in the middle of a block has emitted
\* more than one block and has left a part of the next in the buffer
C36_Witness ==
    /\ dev_type = "AIRSPY"
    /\ Len(blocks) >= 2
    /\ nblocks > Len(blocks)
    /\ iq_pos_ > 0
    /\ \E k \in DOMAIN blocks : Cardinality(blocks[k].data) >= 2

\* ------------------------------------------------------------------------
\* Properties of the stage tables
\* ------------------------------------------------------------------------

\* C37: for every sample rate that has a stage table the product of the
\* factors of its stages is rate / 16000, and one block of the device of
\* rate * 4 / 125 samples decimates to exactly 512 samples for every channel:
\* one channel region of a chunk of the ring, never more.
C37_BlockFillsChannelRegion ==
    /\ stages_m # << >> =>
          /\ settings_rate % 16000 = 0
          /\ M(stages_m) = settings_rate \div 16000
          /\ BlockLen(settings_rate) = (settings_rate * 4) \div 125
    /\ blocks_in > 0 =>
          \A i \in DOMAIN ch_out_len : ch_out_len[i] = CH_IQ_BUF_SIZE

\* C37 witness: two blocks of 10 MS/s have been decimated for two channels
\* and more
C37_Witness ==
    /\ settings_rate = 10000000
    /\ blocks_in = MaxBlocks
    /\ Len(settings_channels) >= 2
    /\ \A i \in DOMAIN ch_out_len : ch_out_len[i] = CH_IQ_BUF_SIZE


\* C38: a channel's audio in a period is demodulated and mixed into the
\* output if and only if the SNR computed from that same period's samples
\* exceeds the channel's threshold. (After a period in which a chunk was
\* read, sql_state holds the decision taken from that period's SNR.)
C38_MixedIffSnrOfSamePeriod ==
    [][sql_wait' # sql_wait
         => \A c \in DOMAIN channels :
               aud_mixed'[c] <=> channels'[c].sql_state = "SQL_OPEN"]_vars

\* What the period does instead: the samples are demodulated and mixed when
\* the decision of the period before was OPEN, and mixed as a ramp-down when
\* the decision of the period before that one was OPEN
C38_MixedFollowsEarlierPeriods ==
    [][sql_wait' # sql_wait
         => \A c \in DOMAIN channels :
               /\ aud_mixed'[c] <=> (channels[c].sql_state = "SQL_OPEN"
                                      \/ channels[c].sql_state_prev = "SQL_OPEN")
               /\ aud_proc'[c] = channels[c].sql_state
               /\ channels'[c].sql_state_prev = channels[c].sql_state]_vars


\* The number of input samples of the MSD one sample of stage k stands for:
\* the product of the factors of the stages before it
RECURSIVE Before(_, _)
Before(ms, k) == IF k = 1 THEN 1 ELSE ms[k - 1] * Before(ms, k - 1)

\* The index of the newest input sample of the MSD a sample is made of
Newest(sample) == CHOOSE i \in {x.i : x \in sample} : \A x \in sample : x.i <= i

\* The n-th sample of the read window of stage k is the j-th sample the stage
\* was given (j counted from 0), or zero if the stage has not been given
\* that many: the j-th sample of a stage is complete when the input sample
\* (j + 1) * Before - 1 of the MSD has arrived, and the first stage is given
\* the input itself, multiplied by the translator where decimate does that
IsArrival(o, k, sample, j) ==
    IF j < 0 THEN sample = Zero
    ELSE /\ sample # Zero
         /\ Newest(sample) = (j + 1) * Before(msd_m, k) - 1
         /\ k = 1 => sample = (IF o = "ft" THEN In(j) ELSE Mix(In(j), j % msd_k))

\* C39: for every decimator stage, after any number of addSample calls the
\* read window [pos, pos + h.size) lies inside the doubled delay line and
\* holds the last h.size input samples of the stage in arrival order, both
\* copies of the delay line being equal (d[i] = d[i + h.size]).
C39_WindowHoldsLastSamples ==
    \A o \in {"ft", "tr", "by"} : \A k \in 1..Len(msd[o].stages_) :
       LET s == msd[o].stages_[k]
           given == (msd_fed + msd_in_len) \div Before(msd_m, k)
       IN  /\ s.pos_ >= 0
           /\ s.pos_ + HSize <= Len(s.d_)
           /\ s.pos_ = given % HSize
           /\ \A i \in 1..HSize : s.d_[i] = s.d_[i + HSize]
           /\ \A n \in 0..(HSize - 1) : IsArrival(o, k, DPtr(s, n), given - HSize + n)

\* C39 witness: the second stage of an MSD was given more samples than its
\* delay line holds and its window starts in the middle of the delay line
C39_Witness ==
    /\ Len(msd_m) = 2
    /\ (msd_fed + msd_in_len) \div msd_m[1] > HSize
    /\ msd.ft.stages_[2].pos_ > 0
    /\ msd.ft.stages_[1].pos_ > 0
    /\ DPtr(msd.ft.stages_[2], 0) # Zero


\* ------------------------------------------------------------------------
\* Properties of the DS
\* ------------------------------------------------------------------------

\* C40: every job handed to addJob is decimated exactly once and its latch is
\* counted down exactly once, for every interleaving of addJob calls, the
\* worker thread and the destructor: when the destructor has returned, every
\* job has been decimated once and its latch counted down once.
C40_EveryJobExactlyOnce ==
    dopc = "d_done" => \A j \in 1..jobs : decimated[j] = 1 /\ counted[j] = 1

\* What holds for every interleaving: no job is decimated twice, the latch
\* of a job is counted down when the job is decimated, and the jobs never
\* decimated are those that were still in in_data_ptr_ when the next addJob
\* overwrote it or the destructor cleared run_
C40_AtMostOnceAndLostWhenDropped ==
    /\ \A j \in 1..MaxJobs : decimated[j] <= 1 /\ counted[j] = decimated[j]
    /\ \A j \in dropped : decimated[j] = 0
    /\ dopc = "d_done" => \A j \in 1..jobs : decimated[j] = 1 <=> j \notin dropped

\* A run where every job was done: the destructor has returned and all
\* MaxJobs jobs were decimated
C40_AllDoneReached ==
    dopc = "d_done" /\ jobs = MaxJobs /\ \A j \in 1..jobs : decimated[j] = 1

====
